---- MODULE Spec2Model ----
(***************************************************************************)
(* verdict-agent: the POST /verdict request path.                          *)
(*   api.Handlers.VerdictHandler -> pipeline.Pipeline.Execute              *)
(*     -> agent.VerdictAgent / agent.ExecutionAgent -> LLM client          *)
(*     -> artifact.Generator.Generate -> storage.Repository.SaveArtifacts  *)
(* Strings are kept run-length encoded (a sequence of runs of one          *)
(* character class), so that the real 10000 limit can be used.             *)
(***************************************************************************)
EXTENDS Integers, Sequences, FiniteSets, TLC

\* ------------------------------------------------------------------ bounds
MaxRuns == 2
MaxClock == 2
MaxRequests == 1
MaxCallers == 2
MaxCalls == 2
MaxUUIDs == 2
MaxGoroutines == 3
MaxSegments == 3
MaxEnrichCalls == 2
MaxTicks == 4
MaxAllows == 5
MaxUpdaters == 2

\* -------------------------------------------------------- program constants
MaxInputLen == 10000
MaxRetries == 3

\* ----------------------------------------------------------------- strings
\* character classes: whitespace (1 byte), ASCII letter (1 byte), CJK (3 bytes)
Runs == [c : {"sp", "a", "zh"}, n : {1, MaxInputLen}]

Strings == UNION {[1..k -> Runs] : k \in 0..MaxRuns}

EmptyString == << >>
Blank == <<[c |-> "sp", n |-> 1]>>
Word == <<[c |-> "a", n |-> 1]>>
OtherWord == <<[c |-> "a", n |-> 2]>>

RECURSIVE TrimLeft(_)
TrimLeft(s) ==
  IF s = << >> THEN << >>
  ELSE IF Head(s).c = "sp" THEN TrimLeft(Tail(s)) ELSE s

RECURSIVE TrimRight(_)
TrimRight(s) ==
  IF s = << >> THEN << >>
  ELSE IF s[Len(s)].c = "sp" THEN TrimRight(SubSeq(s, 1, Len(s) - 1)) ELSE s

TrimSpace(s) == TrimRight(TrimLeft(s))

RECURSIVE RuneCountInString(_)
RuneCountInString(s) ==
  IF s = << >> THEN 0 ELSE Head(s).n + RuneCountInString(Tail(s))

ByteWidth(c) == IF c = "zh" THEN 3 ELSE 1

RECURSIVE len(_)
len(s) ==
  IF s = << >> THEN 0 ELSE Head(s).n * ByteWidth(Head(s).c) + len(Tail(s))

\* ------------------------------------------------------------------ errors
\* An error value is the set of sentinels errors.Is finds in its chain;
\* nil is the empty set.  errors.New / fmt.Errorf without %w give Opaque.
NilErr == {}
Opaque == {"opaque"}
ErrInputEmpty == {"pipeline.ErrInputEmpty"}
ErrInputTooLong == {"pipeline.ErrInputTooLong"}
ErrVerdictFailed == {"pipeline.ErrVerdictFailed"}
ErrExecutionFailed == {"pipeline.ErrExecutionFailed"}
ErrTimeout == {"pipeline.ErrTimeout"}
AgentErrInputTooLong == {"agent.ErrInputTooLong"}
AgentErrEmptyInput == {"agent.ErrEmptyInput"}
ErrEmptyRuling == {"agent.ErrEmptyRuling"}
ErrRateLimited == {"agent.ErrRateLimited"}
AgentErrTimeout == {"agent.ErrTimeout"}
ErrInvalidJSON == {"agent.ErrInvalidJSON"}
DeadlineExceeded == {"context.DeadlineExceeded"}
Canceled == {"context.Canceled"}
\* the error of httpClient.Do when http.Client.Timeout ran out: net/http's
\* timeout error, which errors.Is matches with context.DeadlineExceeded
ClientTimeout == {"opaque", "context.DeadlineExceeded"}

ErrorsIs(err, target) == target \subseteq err /\ target # {}

\* fmt.Errorf("...: %w", err): the chain of err is kept
WrapW(err) == err
\* fmt.Errorf("%w: %v", sentinel, err): only the sentinel is in the chain
WrapSentinel(sentinel, err) == sentinel


\* ------------------------------------------------------------- LLM outputs
\* a Go pointer: Nil or <<value>>
Nil == << >>
Ref(v) == <<v>>
Deref(p) == p[1]

\* agent.VerdictOutput as unmarshalled from the provider's JSON (a missing
\* field is the zero value)
VerdictOutputs == [Ruling : {EmptyString, Blank, Word}, Rationale : {EmptyString, Blank, Word}]

Phases == [Name : {EmptyString, Word}, Tasks : {<< >>, <<Word>>}]
PhaseLists == {<< >>} \cup {<<p>> : p \in Phases}
ExecutionOutputs == [MVPScope : {<< >>, <<Word>>}, Phases : PhaseLists, DoneCriteria : {<< >>, <<Word>>}]

\* a plan that passes every validation, and plans that differ from it in one
\* respect: the number of phases, the number of tasks of a phase, a name, a
\* task, a scope item or a criterion that is empty or whitespace only
GoodPhase == [Name |-> Word, Tasks |-> <<Word>>]

Repeat(x, n) == [i \in 1..n |-> x]

PhaseListVariants ==
  {Repeat(GoodPhase, 3), Repeat(GoodPhase, 4),
   <<[Name |-> Word, Tasks |-> Repeat(Word, 5)]>>,
   <<[Name |-> Word, Tasks |-> Repeat(Word, 6)]>>,
   <<GoodPhase, [Name |-> EmptyString, Tasks |-> <<Word>>]>>,
   <<GoodPhase, [Name |-> Word, Tasks |-> Repeat(Word, 6)]>>,
   <<GoodPhase, [Name |-> Word, Tasks |-> << >>]>>,
   <<[Name |-> Blank, Tasks |-> <<Word>>]>>,
   <<[Name |-> Word, Tasks |-> <<Blank>>]>>,
   <<[Name |-> Word, Tasks |-> <<EmptyString>>]>>}

ExecutionVariants ==
  {[MVPScope |-> <<Word>>, Phases |-> ps, DoneCriteria |-> <<Word>>] : ps \in PhaseListVariants}
    \cup {[MVPScope |-> <<m>>, Phases |-> <<GoodPhase>>, DoneCriteria |-> <<Word>>] :
             m \in {Blank, EmptyString}}
    \cup {[MVPScope |-> <<Word>>, Phases |-> <<GoodPhase>>, DoneCriteria |-> <<d>>] :
             d \in {Blank, EmptyString}}

StageOutputs(st) == IF st = "verdict" THEN VerdictOutputs ELSE ExecutionOutputs

\* what one provider request can end in (makeRequestWithURL): httpClient.Do
\* fails, or fails because http.Client.Timeout ran out ("do_timeout"), the
\* body cannot be read, a 429, another error status or error body; and for a
\* 200 what the completion text holds: no choice, no JSON, JSON of the wrong
\* types, or JSON that unmarshals to a value of the stage's type ("ok")
Outcomes ==
  {"do_error", "do_timeout", "read_error", "429", "api_error", "no_choices", "nojson", "mismatch", "ok"}

\* Analyze was not called
NoAnalysis == [out |-> Nil, err |-> NilErr]

\* no request of this call has ended yet
NoResponse == [o |-> "none", out |-> Nil]

\* the responses of the provider to a request of stage st
Responses(st) ==
  {[o |-> o, out |-> CHOOSE x \in StageOutputs(st) : TRUE] : o \in Outcomes \ {"ok"}}
    \cup {[o |-> "ok", out |-> x] : x \in StageOutputs(st)}

\* the completions of the execution stage that hold one of the variants
VariantResponses(st) ==
  IF st = "execution" THEN {[o |-> "ok", out |-> x] : x \in ExecutionVariants} ELSE {}

\* ------------------------------------------------------------------- state
VARIABLES
  now,           \* the last value time.Now() returned
  uuids,         \* number of uuid.New() calls so far
  impl,          \* which storage.Repository the handlers were given
  clarificationAgent, \* h.clarificationAgent != nil
  decisions,     \* committed decisions, by id
  todos,         \* committed todos, by id
  tx,            \* per caller: the SaveArtifacts call in progress
  calls,         \* number of SaveArtifacts and CreateDecision calls so far
  reqs,          \* POST /verdict requests received
  clarifyCalls,  \* clarificationAgent.Analyze calls of this request
  req,           \* VerdictHandler's decoded req, until it calls Execute
  clarification, \* what Analyze returned to VerdictHandler, until then
  pc,            \* where the handler of the current request is
  input,         \* VerdictHandler's trimmed input
  reqCtx,        \* r.Context().Err()
  timeoutCtx,    \* timeoutCtx.Err() inside Execute
  ctxAtCall,     \* ctx.Err() when Execute was entered
  stage,         \* the stage whose LLM call is running
  attempt,       \* Complete's loop variable
  lastErr,       \* Complete's lastErr
  lastResp,      \* the outcome of the last provider request of this call
  sleeps,        \* the backoff sleeps the running Complete has slept, in seconds
  llmCalls,      \* CompleteJSON calls of this request, per stage
  sent,          \* provider requests sent by the running CompleteJSON call
  validated,     \* stages whose output passed the pipeline's validation
  completed,     \* stages whose CompleteJSON call returned nil
  verdict,       \* Execute's verdict
  result,        \* Execute's returned *PipelineResult
  err,           \* Execute's returned error
  fired,         \* the stage Execute was running when p.timeout ran out
  artifacts,     \* Generate's *Artifacts
  saveCalls,     \* SaveArtifacts calls of this request
  repoAtStart,   \* the repository when the request arrived
  response,      \* the HTTP response written
  original,      \* VerdictHandler's input: the trimmed req.Input
  unmarshalled,  \* what CompleteJSON returned to Analyze, until Execute is called
  getResponse,   \* the response written by the last GET handler
  execs,         \* per goroutine of the concurrency tests: its call of Execute
  callCount,     \* MockLLMClient.callCount
  completion,    \* the completion text handed to extractJSON
  extracted,     \* what extractJSON returned for it
  enriched,      \* the calls of buildEnrichedInput so far, with their results
  rl,            \* the *RateLimiter: requests, limit, window
  clock,         \* the last value time.Now() returned to the rate limiter
  allows,        \* the calls of rl.Allow so far, with their answers
  mu,            \* MemoryRepository.mu: the request holding it for writing, or 0
  history,       \* the *UserHistory stored in r.history
  updaters,      \* the requests of the history handlers: where each is
  search         \* the pipeline has a search client; the search of this call and its prompt

vars == <<now, uuids, impl, clarificationAgent, decisions, todos, tx, calls, reqs, clarifyCalls, req,
          clarification, pc, input, reqCtx, timeoutCtx, ctxAtCall, stage, attempt, lastErr,
          lastResp, sleeps, llmCalls, sent, validated,
          completed, verdict, result, err, fired, artifacts, saveCalls, repoAtStart, response,
          original, unmarshalled, getResponse, execs, callCount, completion, extracted,
          enriched, rl, clock, allows, mu, history, updaters, search>>

repoVars == <<decisions, todos, tx, calls>>
callVars == <<stage, attempt, lastErr, lastResp, sleeps, llmCalls, sent, validated, completed, verdict,
              result, err>>
handlerVars == <<reqs, clarifyCalls, req, clarification, unmarshalled, input, original, artifacts,
                 saveCalls, repoAtStart, response>>
\* the GET handlers, the concurrency tests and extractJSON on their own
apartVars == <<getResponse, execs, callCount, completion, extracted,
               enriched, rl, clock, allows, mu, history, updaters, search>>

\* the callers of the repository: the handler, and other clients of the port
Handler == 0
Callers == 0..MaxCallers

\* ------------------------------------------------------- stage validation
\* validateInput without the TrimSpace
validateInputNoTrim(in) ==
  IF in = EmptyString THEN ErrInputEmpty
  ELSE IF RuneCountInString(in) > MaxInputLen THEN ErrInputTooLong
  ELSE NilErr

\* validateInput with >= for >
validateInputOffByOne(in) ==
  LET t == TrimSpace(in) IN
  IF t = EmptyString THEN ErrInputEmpty
  ELSE IF RuneCountInString(t) >= MaxInputLen THEN ErrInputTooLong
  ELSE NilErr

\* pipeline.Pipeline.validateInput
validateInput(in) ==
  LET t == TrimSpace(in) IN
  IF t = EmptyString THEN ErrInputEmpty
  ELSE IF RuneCountInString(t) > MaxInputLen THEN ErrInputTooLong
  ELSE NilErr

\* agent.validateInput
AgentValidateInput(in) ==
  LET t == TrimSpace(in) IN
  IF t = EmptyString THEN AgentErrEmptyInput
  ELSE IF RuneCountInString(t) > MaxInputLen THEN AgentErrInputTooLong
  ELSE NilErr

\* agent.validateOutput (verdict agent)
validateOutput(output) ==
  IF TrimSpace(output.Ruling) = EmptyString THEN ErrEmptyRuling ELSE NilErr

\* validateVerdictOutput without the test of the rationale
validateVerdictOutputRulingOnly(output) ==
  IF output = Nil THEN Opaque
  ELSE IF TrimSpace(Deref(output).Ruling) = EmptyString THEN Opaque
  ELSE NilErr

\* pipeline.Pipeline.validateVerdictOutput
validateVerdictOutput(output) ==
  IF output = Nil THEN Opaque
  ELSE IF TrimSpace(Deref(output).Ruling) = EmptyString THEN Opaque
  ELSE IF TrimSpace(Deref(output).Rationale) = EmptyString THEN Opaque
  ELSE NilErr

\* ExecutionAgent.validateOutput with a maximum of 4 phases
ExecutionValidateOutputFourPhases(output) ==
  IF Len(output.Phases) > 4 THEN Opaque
  ELSE IF Len(output.Phases) = 0 THEN Opaque
  ELSE IF \E i \in 1..Len(output.Phases) :
            \/ Len(output.Phases[i].Tasks) > 5
            \/ Len(output.Phases[i].Tasks) = 0
            \/ output.Phases[i].Name = EmptyString THEN Opaque
  ELSE IF Len(output.MVPScope) = 0 THEN Opaque
  ELSE IF Len(output.DoneCriteria) = 0 THEN Opaque
  ELSE NilErr

\* agent.ExecutionAgent.validateOutput
ExecutionValidateOutput(output) ==
  IF Len(output.Phases) > 3 THEN Opaque
  ELSE IF Len(output.Phases) = 0 THEN Opaque
  ELSE IF \E i \in 1..Len(output.Phases) :
            \/ Len(output.Phases[i].Tasks) > 5
            \/ Len(output.Phases[i].Tasks) = 0
            \/ output.Phases[i].Name = EmptyString THEN Opaque
  ELSE IF Len(output.MVPScope) = 0 THEN Opaque
  ELSE IF Len(output.DoneCriteria) = 0 THEN Opaque
  ELSE NilErr

\* pipeline.Pipeline.validateExecutionOutput
validateExecutionOutput(output) ==
  IF output = Nil THEN Opaque
  ELSE IF Len(Deref(output).Phases) = 0 THEN Opaque
  ELSE IF ~ \E i \in 1..Len(Deref(output).Phases) : Len(Deref(output).Phases[i].Tasks) > 0
       THEN Opaque
  ELSE NilErr

\* --------------------------------------------------------------- LLM client
\* openAIClient.makeRequestWithURL / anthropicClient.makeRequestWithURL: the
\* error returned for an outcome of the request, ctx being ctx.Err()
makeRequest(o, ctx) ==
  CASE o = "do_error" ->
         IF ctx = DeadlineExceeded THEN AgentErrTimeout
         ELSE WrapW(IF ctx = NilErr THEN Opaque ELSE ctx)
    [] o = "do_timeout" ->
         IF ctx = DeadlineExceeded THEN AgentErrTimeout
         ELSE WrapW(ClientTimeout)
    [] o = "read_error" -> WrapW(IF ctx = NilErr THEN Opaque ELSE ctx)
    [] o = "429" -> ErrRateLimited
    [] o = "api_error" -> Opaque
    [] OTHER -> NilErr

\* the backoff from the second attempt on
backoffFromOne(a) == 2 ^ (a - 1)

\* Complete's backoff before attempt a > 0, in seconds (verdict.go 298)
backoff(a) == 2 ^ a

\* Complete's test for another attempt
Retryable(e) == ErrorsIs(e, ErrRateLimited) \/ ErrorsIs(e, AgentErrTimeout)

\* CompleteJSON after Complete returned a text: extractJSON and json.Unmarshal
CompleteJSON(o) ==
  CASE o = "no_choices" -> Opaque
    [] o = "nojson" -> WrapW(ErrInvalidJSON)
    [] o = "mismatch" -> WrapSentinel(ErrInvalidJSON, Opaque)
    [] OTHER -> NilErr

\* ProcessWithContext falling back to a verdict of its own when the call fails
VerdictProcessFallback(e, out) ==
  IF e # NilErr THEN [out |-> Ref([Ruling |-> Word, Rationale |-> Word]), err |-> NilErr]
  ELSE IF validateOutput(out) # NilErr THEN [out |-> Nil, err |-> validateOutput(out)]
  ELSE [out |-> Ref(out), err |-> NilErr]

\* VerdictAgent.ProcessWithContext after CompleteJSON returned e with result out
VerdictProcess(e, out) ==
  IF e # NilErr THEN [out |-> Nil, err |-> WrapW(e)]
  ELSE IF validateOutput(out) # NilErr THEN [out |-> Nil, err |-> validateOutput(out)]
  ELSE [out |-> Ref(out), err |-> NilErr]

\* ExecutionAgent.Process after CompleteJSON returned e with result out
ExecutionProcess(e, out) ==
  IF e # NilErr THEN [out |-> Nil, err |-> WrapW(e)]
  ELSE IF ExecutionValidateOutput(out) # NilErr
       THEN [out |-> Nil, err |-> WrapW(ExecutionValidateOutput(out))]
  ELSE [out |-> Ref(out), err |-> NilErr]

\* Execute's handling of a stage error (pipeline.go 70-75, 85-90)
StageError(sentinel, e) ==
  IF ErrorsIs(e, DeadlineExceeded) THEN ErrTimeout ELSE WrapSentinel(sentinel, e)

\* ----------------------------------------------------- Pipeline.Execute
InExecute == pc \in {"send", "inflight", "backoff"}

\* Execute returns (r, e) to VerdictHandler; the deferred cancel() runs
Return(r, e) ==
  /\ result' = r
  /\ err' = e
  /\ pc' = "returned"
  /\ UNCHANGED <<stage, attempt, llmCalls, sent, sleeps>>

\* Execute calling the execution agent whatever the stage
StartStageExecutionFirst(st) ==
  /\ stage' = "execution"
  /\ attempt' = 0
  /\ sent' = 0
  /\ sleeps' = << >>
  /\ llmCalls' = [llmCalls EXCEPT !["execution"] = @ + 1]
  /\ pc' = "send"
  /\ UNCHANGED <<result, err>>

\* the agent of stage st calls client.CompleteJSON, which enters Complete's loop
StartStage(st) ==
  /\ stage' = st
  /\ attempt' = 0
  /\ sent' = 0
  /\ sleeps' = << >>
  /\ llmCalls' = [llmCalls EXCEPT ![st] = @ + 1]
  /\ pc' = "send"
  /\ UNCHANGED <<result, err>>

\* Pipeline.Execute up to the verdict agent's LLM call (pipeline.go 52-69,
\* verdict.go 36-47)
Execute ==
  /\ pc = "execute"
  /\ timeoutCtx' = reqCtx
  /\ ctxAtCall' = reqCtx
  /\ lastErr' = NilErr
  /\ IF validateInput(input) # NilErr
       THEN Return(Nil, validateInput(input))
     ELSE IF AgentValidateInput(input) # NilErr
       THEN Return(Nil, StageError(ErrVerdictFailed, AgentValidateInput(input)))
     ELSE StartStage("verdict")
  /\ req' = Nil
  /\ clarification' = NoAnalysis
  /\ unmarshalled' = NoAnalysis
  /\ UNCHANGED <<lastResp, validated, completed, verdict, fired>>
  /\ UNCHANGED <<now, uuids, impl, clarificationAgent, apartVars, reqCtx>>
  /\ UNCHANGED repoVars
  /\ UNCHANGED <<reqs, clarifyCalls, input, original, artifacts, saveCalls, repoAtStart, response>>

\* CompleteJSON returned e, with result out, to the agent of the running
\* stage: the rest of the stage and Execute up to its next LLM call or return
\* (verdict.go 47-56, execution.go 43-52, pipeline.go 70-101)
CompleteReturns(e, out) ==
  IF stage = "verdict" THEN
    LET a == VerdictProcess(e, out) IN
    IF a.err # NilErr THEN
      /\ Return(Nil, StageError(ErrVerdictFailed, a.err))
      /\ UNCHANGED <<verdict, validated>>
    ELSE IF validateVerdictOutput(a.out) # NilErr THEN
      /\ Return(Nil, WrapSentinel(ErrVerdictFailed, validateVerdictOutput(a.out)))
      /\ verdict' = a.out
      /\ UNCHANGED validated
    ELSE
      /\ verdict' = a.out
      /\ validated' = validated \cup {"verdict"}
      /\ StartStage("execution")
  ELSE
    LET a == ExecutionProcess(e, out) IN
    IF a.err # NilErr THEN
      /\ Return(Nil, StageError(ErrExecutionFailed, a.err))
      /\ UNCHANGED <<verdict, validated>>
    ELSE IF validateExecutionOutput(a.out) # NilErr THEN
      /\ Return(Nil, WrapSentinel(ErrExecutionFailed, validateExecutionOutput(a.out)))
      /\ UNCHANGED <<verdict, validated>>
    ELSE
      /\ validated' = validated \cup {"execution"}
      /\ Return(Ref([Input |-> input, Verdict |-> verdict, Execution |-> a.out]), NilErr)
      /\ UNCHANGED verdict

\* Complete after makeRequest returned for outcome o (verdict.go 307-324);
\* a Complete that begins has lastErr nil
AfterRequest(o, out) ==
  LET e == makeRequest(o, timeoutCtx) IN
  /\ lastResp' = [o |-> o, out |-> out]
  /\ IF e # NilErr /\ Retryable(e) /\ attempt + 1 <= MaxRetries THEN
         /\ attempt' = attempt + 1
         /\ lastErr' = e
         /\ pc' = "backoff"
         /\ UNCHANGED <<stage, llmCalls, sent, sleeps, validated, completed, verdict, result, err>>
       ELSE IF e # NilErr THEN
         /\ lastErr' = e
         /\ CompleteReturns(WrapW(e), out)
         /\ UNCHANGED completed
       ELSE
         /\ CompleteReturns(CompleteJSON(o), out)
         /\ lastErr' = IF pc' = "send" THEN NilErr ELSE lastErr
         /\ completed' = IF CompleteJSON(o) = NilErr THEN completed \cup {stage} ELSE completed

\* httpClient.Do is called: with the context already done it fails at once
\* and nothing is sent
SendRequest ==
  /\ pc = "send"
  /\ IF timeoutCtx # NilErr
       THEN AfterRequest("do_error", CHOOSE x \in StageOutputs(stage) : TRUE)
       ELSE /\ pc' = "inflight"
            /\ sent' = sent + 1
            /\ UNCHANGED <<stage, attempt, lastErr, lastResp, sleeps, llmCalls, validated, completed,
                           verdict, result, err>>
  /\ UNCHANGED <<now, uuids, impl, clarificationAgent, apartVars, reqCtx, timeoutCtx, ctxAtCall, fired>>
  /\ UNCHANGED repoVars
  /\ UNCHANGED handlerVars

\* the request in flight ends with outcome o; out is what a well-typed JSON
\* completion unmarshals to
ReceiveResponse(o, out) ==
  /\ pc = "inflight"
  /\ AfterRequest(o, out)
  /\ UNCHANGED <<now, uuids, impl, clarificationAgent, apartVars, reqCtx, timeoutCtx, ctxAtCall, fired>>
  /\ UNCHANGED repoVars
  /\ UNCHANGED handlerVars

\* the select of the backoff sleep (verdict.go 297-305)
Backoff ==
  /\ pc = "backoff"
  /\ IF timeoutCtx # NilErr
       THEN /\ CompleteReturns(timeoutCtx, CHOOSE x \in StageOutputs(stage) : TRUE)
            /\ UNCHANGED <<lastErr, lastResp, completed>>
       ELSE /\ pc' = "send"
            /\ sleeps' = Append(sleeps, backoff(attempt))
            /\ UNCHANGED <<stage, attempt, lastErr, lastResp, llmCalls, sent, validated, completed,
                           verdict, result, err>>
  /\ UNCHANGED <<now, uuids, impl, clarificationAgent, apartVars, reqCtx, timeoutCtx, ctxAtCall, fired>>
  /\ UNCHANGED repoVars
  /\ UNCHANGED handlerVars

\* the deadline of context.WithTimeout(ctx, p.timeout) fires
Deadline ==
  /\ InExecute
  /\ timeoutCtx = NilErr
  /\ timeoutCtx' = DeadlineExceeded
  /\ fired' = fired \cup {stage}
  /\ UNCHANGED <<now, uuids, impl, clarificationAgent, apartVars, reqCtx, ctxAtCall, pc>>
  /\ UNCHANGED repoVars
  /\ UNCHANGED callVars
  /\ UNCHANGED handlerVars

\* the caller's context ends: the client went away (Canceled) or the router's
\* middleware.Timeout fired (DeadlineExceeded); timeoutCtx is its child
RequestDone(e) ==
  /\ pc \in {"execute", "send", "inflight", "backoff", "returned", "save", "saving"}
  /\ reqCtx = NilErr
  /\ reqCtx' = e
  /\ timeoutCtx' = IF InExecute /\ timeoutCtx = NilErr THEN e ELSE timeoutCtx
  /\ UNCHANGED <<now, uuids, impl, clarificationAgent, apartVars, ctxAtCall, fired, pc>>
  /\ UNCHANGED repoVars
  /\ UNCHANGED callVars
  /\ UNCHANGED handlerVars

\* ------------------------------------------------------ artifact.Generator
UuidNil == 0
ZeroTime == 0

\* what time.Now() can return: the clock does not go back
Times == now..MaxClock

\* uuid.UUID.String
String(id) == <<"uuid", id>>

\* createdAt.UTC().Format(time.RFC3339): whole seconds, zone Z; the clock
\* counts half seconds
FormatRFC3339(t) == <<t \div 2, "Z">>

\* generateDecisionJSON
generateDecisionJSON(in, v, id, createdAt) ==
  [id |-> String(id), created_at |-> FormatRFC3339(createdAt), input |-> in,
   verdict |-> [ruling |-> v.Ruling, rationale |-> v.Rationale], is_final |-> TRUE]

\* generateTodoMD: the fields of the rendered template, phases numbered from 1
generateTodoMD(v, e, id, createdAt) ==
  [Ruling |-> v.Ruling, Timestamp |-> FormatRFC3339(createdAt), ID |-> String(id),
   MVPScope |-> e.MVPScope,
   Phases |-> [i \in 1..Len(e.Phases) |->
                 [Number |-> i, Name |-> e.Phases[i].Name, Tasks |-> e.Phases[i].Tasks]],
   DoneCriteria |-> e.DoneCriteria]

\* Generator.Generate, id being the value of uuid.New() and createdAt of
\* time.Now()
Generate(r, id, createdAt) ==
  IF r = Nil THEN [artifacts |-> Nil, err |-> Opaque]
  ELSE IF Deref(r).Verdict = Nil THEN [artifacts |-> Nil, err |-> Opaque]
  ELSE IF Deref(r).Execution = Nil THEN [artifacts |-> Nil, err |-> Opaque]
  ELSE [artifacts |->
          Ref([DecisionJSON |-> generateDecisionJSON(Deref(r).Input, Deref(Deref(r).Verdict), id, createdAt),
               TodoMD |-> generateTodoMD(Deref(Deref(r).Verdict), Deref(Deref(r).Execution), id, createdAt),
               ID |-> id,
               CreatedAt |-> createdAt]),
        err |-> NilErr]

\* ------------------------------------------------------------- HTTP surface
\* the decoded VerdictRequest, Nil for a body that does not decode; its
\* *ClarificationCtx is nil, has no answers, or one answer
Bodies ==
  {Nil} \cup {Ref([Input |-> s, Clarification |-> a, SkipClarify |-> k]) :
                s \in Strings, a \in {Nil, Ref(<< >>), Ref(<<[id |-> Word, answer |-> Word]>>)}, k \in BOOLEAN}

\* "text" and "choice"
TypeText == <<[c |-> "a", n |-> 4]>>
TypeChoice == <<[c |-> "a", n |-> 6]>>

\* "q" and the number of the position before the question's
QuestionIDFromZero(i) == <<"q", i - 1>>

\* fmt.Sprintf("q%d", i+1) for the question at index i: "q" and the decimal
\* number of its 1-based position
QuestionID(i) == <<"q", i>>

\* agent.Question as unmarshalled from the provider's JSON: the id, the type
\* and the options may be missing; the id the provider gives is any string,
\* a word or the text "q2"
Questions ==
  [ID : {EmptyString, Word, <<"q", 2>>}, Question : {Word},
   Type : {EmptyString, TypeText, TypeChoice}, Options : {<< >>, <<Word>>}]

\* no question, one, or two of which the second has no id
QuestionLists ==
  {<< >>} \cup {<<q>> : q \in Questions}
    \cup {<<q, p>> : q \in Questions, p \in {x \in Questions : x.ID = EmptyString}}

\* agent.ClarificationOutput as unmarshalled
ClarificationOutputs == [NeedsClarification : BOOLEAN, Questions : QuestionLists]

\* what client.CompleteJSON can return to Analyze: an error, or nil with the
\* unmarshalled output
ClarifyOutcomes ==
  {[err |-> Opaque, out |-> CHOOSE x \in ClarificationOutputs : TRUE]}
    \cup {[err |-> NilErr, out |-> x] : x \in ClarificationOutputs}

\* ClarificationAgent.Analyze, r being what CompleteJSON returns
Analyze(in, r) ==
  IF TrimSpace(in) = EmptyString THEN [out |-> Nil, err |-> AgentErrEmptyInput]
  ELSE IF RuneCountInString(in) > MaxInputLen THEN [out |-> Nil, err |-> AgentErrInputTooLong]
  ELSE IF r.err # NilErr THEN [out |-> Nil, err |-> WrapW(r.err)]
  ELSE [out |-> Ref([NeedsClarification |-> r.out.NeedsClarification,
                     Questions |-> [i \in 1..Len(r.out.Questions) |->
                        [ID |-> IF r.out.Questions[i].ID = EmptyString
                                  THEN QuestionID(i) ELSE r.out.Questions[i].ID,
                         Question |-> r.out.Questions[i].Question,
                         Type |-> IF r.out.Questions[i].Type = EmptyString
                                    THEN TypeText ELSE r.out.Questions[i].Type,
                         Options |-> r.out.Questions[i].Options]]]),
        err |-> NilErr]

\* the test for answering with the questions (handlers.go 171-174)
AsksQuestions(a) ==
  /\ a.err = NilErr
  /\ a.out # Nil
  /\ Deref(a.out).NeedsClarification
  /\ Len(Deref(a.out).Questions) > 0

\* the QuestionDTOs of the response (handlers.go 176-185)
QuestionDTOs(qs) ==
  [i \in 1..Len(qs) |-> [ID |-> qs[i].ID, Question |-> qs[i].Question, Type |-> qs[i].Type,
                           Options |-> qs[i].Options]]

\* the clarification_needed response without the questions
ClarificationNeededNoQuestions(a) ==
  Ref([status |-> 200, code |-> "clarification_needed", questions |-> << >>])

\* the clarification_needed response (handlers.go 186-190)
ClarificationNeeded(a) ==
  Ref([status |-> 200, code |-> "clarification_needed",
       questions |-> QuestionDTOs(Deref(a.out).Questions)])

\* the test for calling Analyze without skip_clarify
AnalyzesIgnoringSkip(rq) == clarificationAgent /\ rq.Clarification = Nil

\* the test for calling Analyze (handlers.go 169)
Analyzes(rq) == clarificationAgent /\ ~ rq.SkipClarify /\ rq.Clarification = Nil

\* "\n\n--- 用户补充信息 / User Clarifications ---\n"
EnrichedHeader ==
  <<[c |-> "sp", n |-> 2], [c |-> "a", n |-> 3], [c |-> "sp", n |-> 1], [c |-> "zh", n |-> 6],
    [c |-> "sp", n |-> 1], [c |-> "a", n |-> 1], [c |-> "sp", n |-> 1], [c |-> "a", n |-> 4],
    [c |-> "sp", n |-> 1], [c |-> "a", n |-> 14], [c |-> "sp", n |-> 1], [c |-> "a", n |-> 3],
    [c |-> "sp", n |-> 1]>>

\* "- " id ": " answer "\n" for each answer
RECURSIVE AnswerLines(_)
AnswerLines(answers) ==
  IF answers = << >> THEN << >>
  ELSE <<[c |-> "a", n |-> 1], [c |-> "sp", n |-> 1]>> \o Head(answers).id
         \o <<[c |-> "a", n |-> 1], [c |-> "sp", n |-> 1]>> \o Head(answers).answer
         \o <<[c |-> "sp", n |-> 1]>> \o AnswerLines(Tail(answers))

\* Handlers.buildEnrichedInput
buildEnrichedInput(in, answers) == in \o EnrichedHeader \o AnswerLines(answers)

\* the input handed to Execute (handlers.go 196-199)
EnrichedInput(rq) ==
  IF rq.Clarification # Nil /\ Len(Deref(rq.Clarification)) > 0
    THEN buildEnrichedInput(TrimSpace(rq.Input), Deref(rq.Clarification))
    ELSE TrimSpace(rq.Input)


Respond(status, code) == Ref([status |-> status, code |-> code])

\* the error switch without the case of ErrTimeout
ErrorResponseNoTimeout(e) ==
  IF ErrorsIs(e, ErrInputEmpty) THEN Respond(400, "INPUT_EMPTY")
  ELSE IF ErrorsIs(e, ErrInputTooLong) THEN Respond(400, "INPUT_TOO_LONG")
  ELSE Respond(500, "VERDICT_FAILED")

\* the error switch of VerdictHandler (handlers.go 203-215)
ErrorResponse(e) ==
  IF ErrorsIs(e, ErrInputEmpty) THEN Respond(400, "INPUT_EMPTY")
  ELSE IF ErrorsIs(e, ErrInputTooLong) THEN Respond(400, "INPUT_TOO_LONG")
  ELSE IF ErrorsIs(e, ErrTimeout) THEN Respond(504, "VERDICT_FAILED")
  ELSE Respond(500, "VERDICT_FAILED")

\* the decision VerdictHandler hands to SaveArtifacts (handlers.go 225-231)
HandlerDecision(r, a) ==
  Ref([ID |-> a.ID, Input |-> Deref(r).Input, Verdict |-> a.DecisionJSON,
       CreatedAt |-> a.CreatedAt, IsFinal |-> TRUE])

\* the todo handed over without CreatedAt
HandlerTodoNoTime(a) ==
  Ref([ID |-> UuidNil, DecisionID |-> a.ID, Content |-> a.TodoMD, CreatedAt |-> ZeroTime])

\* the todo VerdictHandler hands to SaveArtifacts (handlers.go 232-236)
HandlerTodo(a) ==
  Ref([ID |-> UuidNil, DecisionID |-> a.ID, Content |-> a.TodoMD, CreatedAt |-> a.CreatedAt])

\* a new request or call: nothing of the previous one is kept (per-call state)
NewCall ==
  /\ reqs < MaxRequests
  /\ reqs' = reqs + 1
  /\ repoAtStart' = <<decisions, todos>>
  /\ timeoutCtx' = NilErr
  /\ ctxAtCall' = NilErr
  /\ stage' = "none"
  /\ attempt' = 0
  /\ lastErr' = NilErr
  /\ lastResp' = NoResponse
  /\ sleeps' = << >>
  /\ llmCalls' = [verdict |-> 0, execution |-> 0]
  /\ sent' = 0
  /\ validated' = {}
  /\ completed' = {}
  /\ verdict' = Nil
  /\ result' = Nil
  /\ err' = NilErr
  /\ fired' = {}
  /\ artifacts' = Nil
  /\ saveCalls' = 0

\* a caller other than the handler calls p.Execute(ctx, in), ctx.Err() being e
CallExecute(in, e) ==
  /\ pc \in {"idle", "returned"}
  /\ NewCall
  /\ input' = in
  /\ original' = in
  /\ clarifyCalls' = 0
  /\ req' = Nil
  /\ clarification' = NoAnalysis
  /\ unmarshalled' = NoAnalysis
  /\ reqCtx' = e
  /\ response' = Nil
  /\ pc' = "execute"
  /\ UNCHANGED <<now, uuids, impl, clarificationAgent, apartVars>>
  /\ UNCHANGED repoVars

\* VerdictHandler answering 500 when Analyze fails
VerdictHandlerClarifyFails(b, clar) ==
  /\ pc \in {"idle", "done"}
  /\ NewCall
  /\ reqCtx' = NilErr
  /\ req' = b
  /\ original' = IF b = Nil THEN EmptyString ELSE TrimSpace(Deref(b).Input)
  /\ unmarshalled' = IF b # Nil /\ TrimSpace(Deref(b).Input) # EmptyString
                         /\ len(TrimSpace(Deref(b).Input)) <= MaxInputLen /\ Analyzes(Deref(b))
                       THEN clar ELSE NoAnalysis
  /\ IF b = Nil THEN
       /\ response' = Respond(400, "INTERNAL_ERROR")
       /\ input' = EmptyString
       /\ pc' = "done"
       /\ clarifyCalls' = 0
       /\ clarification' = NoAnalysis
     ELSE IF TrimSpace(Deref(b).Input) = EmptyString THEN
       /\ response' = Respond(400, "INPUT_EMPTY")
       /\ input' = EmptyString
       /\ pc' = "done"
       /\ clarifyCalls' = 0
       /\ clarification' = NoAnalysis
     ELSE IF len(TrimSpace(Deref(b).Input)) > MaxInputLen THEN
       /\ response' = Respond(400, "INPUT_TOO_LONG")
       /\ input' = TrimSpace(Deref(b).Input)
       /\ pc' = "done"
       /\ clarifyCalls' = 0
       /\ clarification' = NoAnalysis
     ELSE
       LET a == IF Analyzes(Deref(b)) THEN Analyze(TrimSpace(Deref(b).Input), clar)
                ELSE NoAnalysis
       IN
       /\ clarifyCalls' = IF Analyzes(Deref(b)) THEN 1 ELSE 0
       /\ clarification' = a
       /\ IF Analyzes(Deref(b)) /\ a.err # NilErr THEN
            /\ response' = Respond(500, "INTERNAL_ERROR")
            /\ input' = TrimSpace(Deref(b).Input)
            /\ pc' = "done"
          ELSE IF Analyzes(Deref(b)) /\ AsksQuestions(a) THEN
            /\ response' = ClarificationNeeded(a)
            /\ input' = TrimSpace(Deref(b).Input)
            /\ pc' = "done"
          ELSE
            /\ response' = Nil
            /\ input' = EnrichedInput(Deref(b))
            /\ pc' = "execute"
  /\ UNCHANGED <<now, uuids, impl, clarificationAgent, apartVars>>
  /\ UNCHANGED repoVars

\* VerdictHandler without the return after the INPUT_TOO_LONG response
VerdictHandlerNoReturn(b, clar) ==
  /\ pc \in {"idle", "done"}
  /\ NewCall
  /\ reqCtx' = NilErr
  /\ req' = b
  /\ original' = IF b = Nil THEN EmptyString ELSE TrimSpace(Deref(b).Input)
  /\ unmarshalled' = IF b # Nil /\ TrimSpace(Deref(b).Input) # EmptyString
                         /\ len(TrimSpace(Deref(b).Input)) <= MaxInputLen /\ Analyzes(Deref(b))
                       THEN clar ELSE NoAnalysis
  /\ IF b = Nil THEN
       /\ response' = Respond(400, "INTERNAL_ERROR")
       /\ input' = EmptyString
       /\ pc' = "done"
       /\ clarifyCalls' = 0
       /\ clarification' = NoAnalysis
     ELSE IF TrimSpace(Deref(b).Input) = EmptyString THEN
       /\ response' = Respond(400, "INPUT_EMPTY")
       /\ input' = EmptyString
       /\ pc' = "done"
       /\ clarifyCalls' = 0
       /\ clarification' = NoAnalysis
     ELSE IF len(TrimSpace(Deref(b).Input)) > MaxInputLen THEN
       /\ response' = Respond(400, "INPUT_TOO_LONG")
       /\ input' = TrimSpace(Deref(b).Input)
       /\ pc' = "execute"
       /\ clarifyCalls' = 0
       /\ clarification' = NoAnalysis
     ELSE
       LET a == IF Analyzes(Deref(b)) THEN Analyze(TrimSpace(Deref(b).Input), clar)
                ELSE NoAnalysis
       IN
       /\ clarifyCalls' = IF Analyzes(Deref(b)) THEN 1 ELSE 0
       /\ clarification' = a
       /\ IF Analyzes(Deref(b)) /\ AsksQuestions(a) THEN
            /\ response' = ClarificationNeeded(a)
            /\ input' = TrimSpace(Deref(b).Input)
            /\ pc' = "done"
          ELSE
            /\ response' = Nil
            /\ input' = EnrichedInput(Deref(b))
            /\ pc' = "execute"
  /\ UNCHANGED <<now, uuids, impl, clarificationAgent, apartVars>>
  /\ UNCHANGED repoVars

\* VerdictHandler from the decoding of the body to the call of Execute
\* (handlers.go 150-202); b is Nil for a body that is not JSON, clar is what
\* CompleteJSON returns to clarificationAgent.Analyze when it is called
VerdictHandler(b, clar) ==
  /\ pc \in {"idle", "done"}
  /\ NewCall
  /\ reqCtx' = NilErr
  /\ req' = b
  /\ original' = IF b = Nil THEN EmptyString ELSE TrimSpace(Deref(b).Input)
  /\ unmarshalled' = IF b # Nil /\ TrimSpace(Deref(b).Input) # EmptyString
                         /\ len(TrimSpace(Deref(b).Input)) <= MaxInputLen /\ Analyzes(Deref(b))
                       THEN clar ELSE NoAnalysis
  /\ IF b = Nil THEN
       /\ response' = Respond(400, "INTERNAL_ERROR")
       /\ input' = EmptyString
       /\ pc' = "done"
       /\ clarifyCalls' = 0
       /\ clarification' = NoAnalysis
     ELSE IF TrimSpace(Deref(b).Input) = EmptyString THEN
       /\ response' = Respond(400, "INPUT_EMPTY")
       /\ input' = EmptyString
       /\ pc' = "done"
       /\ clarifyCalls' = 0
       /\ clarification' = NoAnalysis
     ELSE IF len(TrimSpace(Deref(b).Input)) > MaxInputLen THEN
       /\ response' = Respond(400, "INPUT_TOO_LONG")
       /\ input' = TrimSpace(Deref(b).Input)
       /\ pc' = "done"
       /\ clarifyCalls' = 0
       /\ clarification' = NoAnalysis
     ELSE
       LET a == IF Analyzes(Deref(b)) THEN Analyze(TrimSpace(Deref(b).Input), clar)
                ELSE NoAnalysis
       IN
       /\ clarifyCalls' = IF Analyzes(Deref(b)) THEN 1 ELSE 0
       /\ clarification' = a
       /\ IF Analyzes(Deref(b)) /\ AsksQuestions(a) THEN
            /\ response' = ClarificationNeeded(a)
            /\ input' = TrimSpace(Deref(b).Input)
            /\ pc' = "done"
          ELSE
            /\ response' = Nil
            /\ input' = EnrichedInput(Deref(b))
            /\ pc' = "execute"
  /\ UNCHANGED <<now, uuids, impl, clarificationAgent, apartVars>>
  /\ UNCHANGED repoVars

\* VerdictHandler after Execute returned: the error response, or Generate and
\* the artifacts to save (handlers.go 203-236)
HandleResult ==
  /\ pc = "returned"
  /\ IF err # NilErr THEN
       /\ response' = ErrorResponse(err)
       /\ pc' = "done"
       /\ UNCHANGED <<artifacts, uuids, now>>
     ELSE IF Generate(result, uuids + 1, now).err # NilErr THEN
       /\ response' = Respond(500, "VERDICT_FAILED")
       /\ pc' = "done"
       /\ UNCHANGED <<artifacts, uuids, now>>
     ELSE \E t \in Times :
       /\ artifacts' = Generate(result, uuids + 1, t).artifacts
       /\ uuids' = uuids + 1
       /\ now' = t
       /\ pc' = "save"
       /\ UNCHANGED response
  /\ UNCHANGED <<impl, clarificationAgent, apartVars, reqCtx, timeoutCtx, ctxAtCall, fired>>
  /\ UNCHANGED <<reqs, clarifyCalls, req, clarification, unmarshalled, input, original, saveCalls, repoAtStart>>
  /\ UNCHANGED repoVars
  /\ UNCHANGED callVars

\* ------------------------------------------------------- storage.Repository
\* m with m[k] = v
Put(m, k, v) == [x \in DOMAIN m \cup {k} |-> IF x = k THEN v ELSE m[x]]

NoRows == [x \in {} |-> x]

IdleTx == [pc |-> "idle", d |-> Nil, t |-> Nil, err |-> NilErr, call |-> 0]

\* GetDecision: Nil stands for the not-found error
GetDecision(id) == IF id \in DOMAIN decisions THEN Ref(decisions[id]) ELSE Nil

\* GetTodo: Nil stands for the not-found error
GetTodo(id) == IF id \in DOMAIN todos THEN Ref(todos[id]) ELSE Nil

\* GetTodoByDecisionID: the rows it can return (the first match in map
\* iteration order, or of the query); empty stands for the not-found error
GetTodoByDecisionID(decisionID) ==
  {todos[k] : k \in {x \in DOMAIN todos : todos[x].DecisionID = decisionID}}

\* SaveArtifacts' defaults: ids and creation times when not provided, and the
\* todo made to reference the decision (part_008 159-174, postgres.go 215-232)
SaveDefaults(d, t, call, tnow) ==
  LET did == IF d.ID = UuidNil THEN uuids + 1 ELSE d.ID
      n == IF d.ID = UuidNil THEN uuids + 1 ELSE uuids
      tid == IF t.ID = UuidNil THEN n + 1 ELSE t.ID
      m == IF t.ID = UuidNil THEN n + 1 ELSE n
  IN [d |-> [ID |-> did, Input |-> d.Input, Verdict |-> d.Verdict,
             CreatedAt |-> IF d.CreatedAt = ZeroTime THEN tnow ELSE d.CreatedAt,
             IsFinal |-> d.IsFinal, call |-> call],
      t |-> [ID |-> tid, DecisionID |-> did, Content |-> t.Content,
             CreatedAt |-> IF t.CreatedAt = ZeroTime THEN tnow ELSE t.CreatedAt,
             call |-> call],
      uuids |-> m]

\* SaveArtifacts returns e to caller c
SaveReturns(c, d, t, e) ==
  tx' = [tx EXCEPT ![c] = [pc |-> "returned", d |-> d, t |-> t, err |-> e, call |-> calls + 1]]

\* MemoryRepository.SaveArtifacts, under r.mu.Lock()
MemorySaveArtifacts(c, d, t, tnow) ==
  IF d = Nil \/ t = Nil THEN
    /\ SaveReturns(c, d, t, Opaque)
    /\ UNCHANGED <<decisions, todos, uuids, now>>
  ELSE
    LET s == SaveDefaults(Deref(d), Deref(t), calls + 1, tnow) IN
    /\ now' = tnow
    /\ decisions' = Put(decisions, s.d.ID, s.d)
    /\ todos' = Put(todos, s.t.ID, s.t)
    /\ uuids' = s.uuids
    /\ SaveReturns(c, Ref(s.d), Ref(s.t), NilErr)

\* PostgresRepository.SaveArtifacts up to the first insert: r.pool.Begin
\* succeeds (begun) or fails; the rows are then staged in the transaction
PostgresSaveArtifacts(c, d, t, begun, tnow) ==
  IF d = Nil \/ t = Nil THEN
    /\ SaveReturns(c, d, t, Opaque)
    /\ UNCHANGED <<decisions, todos, uuids, now>>
  ELSE IF ~ begun THEN
    /\ SaveReturns(c, d, t, WrapW(Opaque))
    /\ UNCHANGED <<decisions, todos, uuids, now>>
  ELSE
    LET s == SaveDefaults(Deref(d), Deref(t), calls + 1, tnow) IN
    /\ tx' = [tx EXCEPT ![c] = [pc |-> "decision", d |-> Ref(s.d), t |-> Ref(s.t),
                                err |-> NilErr, call |-> calls + 1]]
    /\ uuids' = s.uuids
    /\ now' = tnow
    /\ UNCHANGED <<decisions, todos>>

\* Repository.SaveArtifacts called by c; ctxDone: the caller's context is done
SaveArtifacts(c, d, t, ctxDone) ==
  /\ tx[c].pc \in {"idle", "returned"}
  /\ calls' = calls + 1
  /\ \E tnow \in Times :
       IF impl = "memory" THEN MemorySaveArtifacts(c, d, t, tnow)
       ELSE \E begun \in BOOLEAN : PostgresSaveArtifacts(c, d, t, begun /\ ~ ctxDone, tnow)

\* CreateDecision's defaults (part_008 84-89, postgres.go 79-86); call is 0:
\* the row is of no SaveArtifacts call
CreateDefaults(d, tnow) ==
  [d |-> [ID |-> IF d.ID = UuidNil THEN uuids + 1 ELSE d.ID,
          Input |-> d.Input, Verdict |-> d.Verdict,
          CreatedAt |-> IF d.CreatedAt = ZeroTime THEN tnow ELSE d.CreatedAt,
          IsFinal |-> d.IsFinal, call |-> 0],
   uuids |-> IF d.ID = UuidNil THEN uuids + 1 ELSE uuids,
   now |-> IF d.CreatedAt = ZeroTime THEN tnow ELSE now]

\* MemoryRepository.CreateDecision, under r.mu.Lock()
MemoryCreateDecision(d, tnow) ==
  IF d = Nil THEN UNCHANGED <<decisions, uuids, now>>
  ELSE
    LET s == CreateDefaults(Deref(d), tnow) IN
    /\ uuids' = s.uuids
    /\ now' = s.now
    /\ decisions' = Put(decisions, s.d.ID, s.d)

\* PostgresRepository.CreateDecision: one INSERT; ok: the database carries
\* it out; id is the key of the table
PostgresCreateDecision(d, ok, tnow) ==
  IF d = Nil THEN UNCHANGED <<decisions, uuids, now>>
  ELSE
    LET s == CreateDefaults(Deref(d), tnow) IN
    /\ uuids' = s.uuids
    /\ now' = s.now
    /\ decisions' = IF ok /\ s.d.ID \notin DOMAIN decisions
                       THEN Put(decisions, s.d.ID, s.d) ELSE decisions

\* Repository.CreateDecision called by c
CreateDecision(c, d) ==
  /\ tx[c].pc \in {"idle", "returned"}
  /\ calls' = calls + 1
  /\ \E tnow \in Times :
       IF impl = "memory" THEN MemoryCreateDecision(d, tnow)
       ELSE \E ok \in BOOLEAN : PostgresCreateDecision(d, ok, tnow)
  /\ UNCHANGED <<todos, tx>>

\* an abort that leaves the decision inserted before the failure
RollbackKeepsDecision(c, e) ==
  /\ tx' = [tx EXCEPT ![c].pc = "returned", ![c].err = e]
  /\ decisions' = IF tx[c].pc \in {"todo", "commit"}
                    THEN Put(decisions, Deref(tx[c].d).ID, Deref(tx[c].d))
                    ELSE decisions
  /\ UNCHANGED todos

\* the deferred tx.Rollback after an error: the staged rows are dropped
Rollback(c, e) ==
  /\ tx' = [tx EXCEPT ![c].pc = "returned", ![c].err = e]
  /\ UNCHANGED <<decisions, todos>>

CtxDone(c) == c = Handler /\ reqCtx # NilErr

\* tx.Exec of the INSERT INTO decisions (postgres.go 235-242); ok: the
\* database carries it out; id is the key of the table
InsertDecision(c, ok) ==
  /\ tx[c].pc = "decision"
  /\ IF ok /\ ~ CtxDone(c) /\ Deref(tx[c].d).ID \notin DOMAIN decisions
       THEN /\ tx' = [tx EXCEPT ![c].pc = "todo"]
            /\ UNCHANGED <<decisions, todos>>
       ELSE Rollback(c, WrapW(Opaque))
  /\ UNCHANGED <<calls, now, uuids, impl, clarificationAgent, apartVars, pc, reqCtx, timeoutCtx, ctxAtCall, fired>>
  /\ UNCHANGED callVars
  /\ UNCHANGED handlerVars

\* tx.Exec of the INSERT INTO todos (postgres.go 245-252)
InsertTodo(c, ok) ==
  /\ tx[c].pc = "todo"
  /\ IF ok /\ ~ CtxDone(c) /\ Deref(tx[c].t).ID \notin DOMAIN todos
       THEN /\ tx' = [tx EXCEPT ![c].pc = "commit"]
            /\ UNCHANGED <<decisions, todos>>
       ELSE Rollback(c, WrapW(Opaque))
  /\ UNCHANGED <<calls, now, uuids, impl, clarificationAgent, apartVars, pc, reqCtx, timeoutCtx, ctxAtCall, fired>>
  /\ UNCHANGED callVars
  /\ UNCHANGED handlerVars

\* tx.Commit (postgres.go 255-259): both rows become visible, or neither
Commit(c, ok) ==
  /\ tx[c].pc = "commit"
  /\ IF /\ ok /\ ~ CtxDone(c)
        /\ Deref(tx[c].d).ID \notin DOMAIN decisions
        /\ Deref(tx[c].t).ID \notin DOMAIN todos
       THEN /\ decisions' = Put(decisions, Deref(tx[c].d).ID, Deref(tx[c].d))
            /\ todos' = Put(todos, Deref(tx[c].t).ID, Deref(tx[c].t))
            /\ tx' = [tx EXCEPT ![c].pc = "returned", ![c].err = NilErr]
       ELSE Rollback(c, WrapW(Opaque))
  /\ UNCHANGED <<calls, now, uuids, impl, clarificationAgent, apartVars, pc, reqCtx, timeoutCtx, ctxAtCall, fired>>
  /\ UNCHANGED callVars
  /\ UNCHANGED handlerVars

\* VerdictHandler calls h.repository.SaveArtifacts (handlers.go 238)
Save ==
  /\ pc = "save"
  /\ SaveArtifacts(Handler, HandlerDecision(result, Deref(artifacts)),
                   HandlerTodo(Deref(artifacts)), reqCtx # NilErr)
  /\ saveCalls' = saveCalls + 1
  /\ pc' = "saving"
  /\ UNCHANGED <<impl, clarificationAgent, apartVars, reqCtx, timeoutCtx, ctxAtCall, fired>>
  /\ UNCHANGED <<reqs, clarifyCalls, req, clarification, unmarshalled, input, original, artifacts, repoAtStart, response>>
  /\ UNCHANGED callVars

\* VerdictHandler after SaveArtifacts returned (handlers.go 238-280)
Saved ==
  /\ pc = "saving"
  /\ tx[Handler].pc = "returned"
  /\ response' =
       IF tx[Handler].err # NilErr THEN Respond(500, "INTERNAL_ERROR")
       ELSE Ref([status |-> 200, code |-> "verdict",
                 decision_id |-> String(Deref(artifacts).ID),
                 decision |-> Deref(artifacts).DecisionJSON,
                 todo |-> Deref(artifacts).TodoMD])
  /\ tx' = [tx EXCEPT ![Handler] = IdleTx]
  /\ pc' = "done"
  /\ UNCHANGED <<now, uuids, impl, clarificationAgent, apartVars, reqCtx, timeoutCtx, ctxAtCall, fired, decisions, todos, calls>>
  /\ UNCHANGED <<reqs, clarifyCalls, req, clarification, unmarshalled, input, original, artifacts, saveCalls, repoAtStart>>
  /\ UNCHANGED callVars

\* ------------------------------------------------------------ GET handlers
\* the {id} of the URL: a text that is no UUID, or the text of a UUID
IdStrings == {<<"text", 0>>} \cup {String(id) : id \in 0..MaxUUIDs + 1}

\* uuid.Parse
Parse(s) == IF s[1] = "uuid" THEN [id |-> s[2], err |-> NilErr] ELSE [id |-> UuidNil, err |-> Opaque]

\* t.Format("2006-01-02T15:04:05Z")
FormatZ(t) == <<t \div 2, "Z">>

\* the response of a GET handler that answers 404 for every error
GetResponseAlwaysNotFound(idStr, row, failed, body) ==
  IF Parse(idStr).err # NilErr THEN [status |-> 404, code |-> "NOT_FOUND", body |-> Nil]
  ELSE IF failed THEN [status |-> 404, code |-> "NOT_FOUND", body |-> Nil]
  ELSE IF row = Nil THEN [status |-> 404, code |-> "NOT_FOUND", body |-> Nil]
  ELSE [status |-> 200, code |-> "", body |-> Ref(body)]

\* the response of a GET handler for what the repository's getter returned:
\* row, Nil with its not-found error, or (failed) Nil with another error
\* (handlers.go 307-315, 335-343); body is the response for a row
GetResponse(idStr, row, failed, body) ==
  IF Parse(idStr).err # NilErr THEN [status |-> 400, code |-> "INVALID_ID", body |-> Nil]
  ELSE IF failed THEN [status |-> 500, code |-> "INTERNAL_ERROR", body |-> Nil]
  ELSE IF row = Nil THEN [status |-> 404, code |-> "NOT_FOUND", body |-> Nil]
  ELSE [status |-> 200, code |-> "", body |-> Ref(body)]

\* a GET handler writes its response
Get(handler, idStr, failed, r) ==
  /\ getResponse = Nil
  /\ getResponse' = Ref([handler |-> handler, id |-> idStr, failed |-> failed,
                         status |-> r.status, code |-> r.code, body |-> r.body])
  /\ UNCHANGED <<now, uuids, impl, clarificationAgent, pc, reqCtx, timeoutCtx, ctxAtCall, fired>>
  /\ UNCHANGED <<execs, callCount, completion, extracted>>
  /\ UNCHANGED <<enriched, rl, clock, allows, mu, history, updaters, search>>
  /\ UNCHANGED repoVars
  /\ UNCHANGED callVars
  /\ UNCHANGED handlerVars

\* Handlers.GetDecisionHandler; ok: the query of the Postgres repository is
\* carried out (the in-memory getter fails only with not found)
GetDecisionHandler(idStr, ok) ==
  LET row == GetDecision(Parse(idStr).id)
      failed == impl = "postgres" /\ ~ ok
  IN Get("decision", idStr, failed,
         GetResponse(idStr, row, failed,
           IF row = Nil THEN Nil
           ELSE [ID |-> String(Deref(row).ID), Input |-> Deref(row).Input,
                 Verdict |-> Deref(row).Verdict, CreatedAt |-> FormatZ(Deref(row).CreatedAt),
                 IsFinal |-> Deref(row).IsFinal]))

\* Handlers.GetTodoHandler
GetTodoHandler(idStr, ok) ==
  LET row == GetTodo(Parse(idStr).id)
      failed == impl = "postgres" /\ ~ ok
  IN Get("todo", idStr, failed,
         GetResponse(idStr, row, failed,
           IF row = Nil THEN Nil
           ELSE [ID |-> String(Deref(row).ID), DecisionID |-> String(Deref(row).DecisionID),
                 Content |-> Deref(row).Content, CreatedAt |-> FormatZ(Deref(row).CreatedAt)]))

\* ------------------------------------------------------------ specification
\* the state after construction, the clock reading t
InitAt(t) ==
  /\ now = t
  /\ uuids = 0
  /\ impl \in {"memory", "postgres"}
  /\ clarificationAgent \in BOOLEAN
  /\ decisions = NoRows
  /\ todos = NoRows
  /\ tx = [c \in Callers |-> IdleTx]
  /\ calls = 0
  /\ reqs = 0
  /\ clarifyCalls = 0
  /\ req = Nil
  /\ clarification = NoAnalysis
  /\ pc = "idle"
  /\ input = EmptyString
  /\ reqCtx = NilErr
  /\ timeoutCtx = NilErr
  /\ ctxAtCall = NilErr
  /\ stage = "none"
  /\ attempt = 0
  /\ lastErr = NilErr
  /\ lastResp = NoResponse
  /\ sleeps = << >>
  /\ llmCalls = [verdict |-> 0, execution |-> 0]
  /\ sent = 0
  /\ validated = {}
  /\ completed = {}
  /\ verdict = Nil
  /\ result = Nil
  /\ err = NilErr
  /\ fired = {}
  /\ artifacts = Nil
  /\ saveCalls = 0
  /\ repoAtStart = <<NoRows, NoRows>>
  /\ response = Nil
  /\ original = EmptyString
  /\ unmarshalled = NoAnalysis
  /\ getResponse = Nil
  /\ execs = << >>
  /\ callCount = 0
  /\ completion = << >>
  /\ extracted = Nil
  /\ enriched = << >>
  /\ rl = Nil
  /\ clock = 0
  /\ allows = << >>
  /\ mu = 0
  /\ history = [DoneCriteria |-> << >>, Score |-> 0]
  /\ updaters = << >>
  /\ search = [client |-> FALSE, call |-> 0, outcome |-> "none", context |-> Nil, prompt |-> Nil]

Init == InitAt(1)

Next ==
  \/ /\ pc \in {"idle", "done"}
     /\ reqs < MaxRequests
     /\ \E b \in Bodies : \E clar \in ClarifyOutcomes : VerdictHandler(b, clar)
  \/ Execute
  \/ SendRequest
  \/ \E r \in Responses(stage) : ReceiveResponse(r.o, r.out)
  \/ Backoff
  \/ Deadline
  \/ \E e \in {Canceled, DeadlineExceeded} : RequestDone(e)
  \/ HandleResult
  \/ Save
  \/ \E ok \in BOOLEAN : InsertDecision(Handler, ok)
  \/ \E ok \in BOOLEAN : InsertTodo(Handler, ok)
  \/ \E ok \in BOOLEAN : Commit(Handler, ok)
  \/ Saved

Spec == Init /\ [][Next]_vars

\* Pipeline.Execute called directly, as the pipeline's tests do
NextExecute ==
  \/ /\ pc \in {"idle", "returned"}
     /\ reqs < MaxRequests
     /\ \E in \in Strings : \E e \in {NilErr, Canceled, DeadlineExceeded} : CallExecute(in, e)
  \/ Execute
  \/ SendRequest
  \/ \E r \in Responses(stage) \cup VariantResponses(stage) : ReceiveResponse(r.o, r.out)
  \/ Backoff
  \/ Deadline
  \/ \E e \in {Canceled, DeadlineExceeded} : RequestDone(e)

\* the pipeline on its own: no handlers, no repository
InitExecute ==
  /\ InitAt(1)
  /\ impl = "memory"
  /\ ~ clarificationAgent

SpecExecute == InitExecute /\ [][NextExecute]_vars

\* ------------------------------------------ the repository port on its own
DecisionArgs ==
  {Nil} \cup {Ref([ID |-> i, Input |-> in, Verdict |-> Word, CreatedAt |-> ct, IsFinal |-> TRUE]) :
                i \in 0..uuids, in \in {Word, OtherWord}, ct \in {ZeroTime, now}}

TodoArgs ==
  {Nil} \cup {Ref([ID |-> i, DecisionID |-> UuidNil, Content |-> Word, CreatedAt |-> ct]) :
                i \in 0..uuids, ct \in {ZeroTime, now}}

\* a client of the port calls uuid.New()
NewUUID ==
  /\ uuids < MaxUUIDs
  /\ uuids' = uuids + 1
  /\ UNCHANGED <<now, impl, clarificationAgent, apartVars, pc, reqCtx, timeoutCtx, ctxAtCall, fired>>
  /\ UNCHANGED repoVars
  /\ UNCHANGED callVars
  /\ UNCHANGED handlerVars

\* client c calls SaveArtifacts(ctx, d, t)
ClientSave(c, d, t) ==
  /\ c # Handler
  /\ calls < MaxCalls
  /\ SaveArtifacts(c, d, t, FALSE)
  /\ UNCHANGED <<impl, clarificationAgent, apartVars, pc, reqCtx, timeoutCtx, ctxAtCall, fired>>
  /\ UNCHANGED callVars
  /\ UNCHANGED handlerVars

\* client c calls CreateDecision(ctx, d)
ClientCreateDecision(c, d) ==
  /\ c # Handler
  /\ calls < MaxCalls
  /\ CreateDecision(c, d)
  /\ UNCHANGED <<impl, clarificationAgent, apartVars, pc, reqCtx, timeoutCtx, ctxAtCall, fired>>
  /\ UNCHANGED callVars
  /\ UNCHANGED handlerVars

NextRepo ==
  \/ NewUUID
  \/ \E c \in Callers : \E d \in DecisionArgs : ClientCreateDecision(c, d)
  \/ \E c \in Callers : \E d \in DecisionArgs : \E t \in TodoArgs : ClientSave(c, d, t)
  \/ \E c \in Callers : \E ok \in BOOLEAN : InsertDecision(c, ok)
  \/ \E c \in Callers : \E ok \in BOOLEAN : InsertTodo(c, ok)
  \/ \E c \in Callers : \E ok \in BOOLEAN : Commit(c, ok)

\* the port in use since some time
InitRepo ==
  /\ InitAt(MaxClock)
  /\ ~ clarificationAgent

SpecRepo == InitRepo /\ [][NextRepo]_vars

\* the GET handlers on a repository that one client has written to; the GET
\* request is the last one served
NextGet ==
  \/ /\ getResponse = Nil
     /\ \/ NewUUID
        \/ \E d \in DecisionArgs : \E t \in TodoArgs : ClientSave(1, d, t)
        \/ \E ok \in BOOLEAN : InsertDecision(1, ok)
        \/ \E ok \in BOOLEAN : InsertTodo(1, ok)
        \/ \E ok \in BOOLEAN : Commit(1, ok)
  \/ \E idStr \in IdStrings : \E ok \in BOOLEAN : GetDecisionHandler(idStr, ok)
  \/ \E idStr \in IdStrings : \E ok \in BOOLEAN : GetTodoHandler(idStr, ok)

SpecGet == InitRepo /\ [][NextGet]_vars

\* --------------------------------------- concurrent calls of one Pipeline
\* the concurrency tests start up to MaxGoroutines goroutines, each calling
\* p.Execute on the shared Pipeline whose agents share one MockLLMClient

\* the inputs the tests hand to Execute: empty ones and valid ones
TestInputs == {EmptyString, Blank, Word, OtherWord}

\* "Use Go", and a text of several words
UseGo == <<[c |-> "a", n |-> 3], [c |-> "sp", n |-> 1], [c |-> "a", n |-> 2]>>
Sentence == <<[c |-> "a", n |-> 2], [c |-> "sp", n |-> 1], [c |-> "a", n |-> 4]>>

\* a mock whose calls fail after the first one
NewMockLLMClientFailAfter ==
  [VerdictResponse |-> [Ruling |-> UseGo, Rationale |-> Sentence],
   ExecutionResponse |->
     [MVPScope |-> <<Sentence, Sentence>>,
      Phases |-> <<[Name |-> Sentence, Tasks |-> <<Sentence, Sentence>>],
                   [Name |-> Sentence, Tasks |-> <<Sentence, Sentence>>]>>,
      DoneCriteria |-> <<Sentence, Sentence>>],
   ShouldFail |-> FALSE,
   FailAfter |-> 1]

\* mocks.NewMockLLMClient: the default responses, no failure configured
NewMockLLMClient ==
  [VerdictResponse |-> [Ruling |-> UseGo, Rationale |-> Sentence],
   ExecutionResponse |->
     [MVPScope |-> <<Sentence, Sentence>>,
      Phases |-> <<[Name |-> Sentence, Tasks |-> <<Sentence, Sentence>>],
                   [Name |-> Sentence, Tasks |-> <<Sentence, Sentence>>]>>,
      DoneCriteria |-> <<Sentence, Sentence>>],
   ShouldFail |-> FALSE,
   FailAfter |-> 0]

\* MockLLMClient.CompleteJSON for the result type of stage st, count being
\* the value atomic.AddInt32(&m.callCount, 1) returned
MockCompleteJSON(count, st) ==
  LET m == NewMockLLMClient
      v == IF st = "verdict" THEN m.VerdictResponse ELSE m.ExecutionResponse
  IN IF m.ShouldFail THEN [err |-> Opaque, out |-> v]
     ELSE IF m.FailAfter > 0 /\ count > m.FailAfter THEN [err |-> Opaque, out |-> v]
     ELSE [err |-> NilErr, out |-> v]

\* goroutine g's Execute returns (r, e)
GoReturn(g, r, e) ==
  execs' = [execs EXCEPT ![g].pc = "returned", ![g].result = r, ![g].err = e]

\* the test starts a goroutine that will call p.Execute(ctx, in)
Go(in) ==
  /\ Len(execs) < MaxGoroutines
  /\ execs' = Append(execs, [pc |-> "go", input |-> in, verdict |-> Nil, result |-> Nil,
                             err |-> NilErr, artifacts |-> Nil])
  /\ UNCHANGED <<callCount, uuids, now>>

\* goroutine g calls Execute: the input validations of the pipeline and of
\* the verdict agent (pipeline.go 63-66, verdict.go 38-40)
GoExecute(g) ==
  /\ execs[g].pc = "go"
  /\ IF validateInput(execs[g].input) # NilErr
       THEN GoReturn(g, Nil, validateInput(execs[g].input))
     ELSE IF AgentValidateInput(execs[g].input) # NilErr
       THEN GoReturn(g, Nil, StageError(ErrVerdictFailed, AgentValidateInput(execs[g].input)))
     ELSE execs' = [execs EXCEPT ![g].pc = "verdict"]
  /\ UNCHANGED <<callCount, uuids, now>>

\* goroutine g's verdict stage from the mock's CompleteJSON on
\* (verdict.go 47-56, pipeline.go 70-81)
GoVerdict(g) ==
  /\ execs[g].pc = "verdict"
  /\ callCount' = callCount + 1
  /\ LET r == MockCompleteJSON(callCount + 1, "verdict")
         a == VerdictProcess(r.err, r.out)
     IN IF a.err # NilErr
          THEN GoReturn(g, Nil, StageError(ErrVerdictFailed, a.err))
        ELSE IF validateVerdictOutput(a.out) # NilErr
          THEN GoReturn(g, Nil, WrapSentinel(ErrVerdictFailed, validateVerdictOutput(a.out)))
        ELSE execs' = [execs EXCEPT ![g].pc = "execution", ![g].verdict = a.out]
  /\ UNCHANGED <<uuids, now>>

\* goroutine g's execution stage from the mock's CompleteJSON on
\* (execution.go 43-52, pipeline.go 85-101)
GoExecution(g) ==
  /\ execs[g].pc = "execution"
  /\ callCount' = callCount + 1
  /\ LET r == MockCompleteJSON(callCount + 1, "execution")
         a == ExecutionProcess(r.err, r.out)
     IN IF a.err # NilErr
          THEN GoReturn(g, Nil, StageError(ErrExecutionFailed, a.err))
        ELSE IF validateExecutionOutput(a.out) # NilErr
          THEN GoReturn(g, Nil, WrapSentinel(ErrExecutionFailed, validateExecutionOutput(a.out)))
        ELSE GoReturn(g, Ref([Input |-> execs[g].input, Verdict |-> execs[g].verdict,
                              Execution |-> a.out]), NilErr)
  /\ UNCHANGED <<uuids, now>>

\* gen.Generate with an id that was handed out before
GoGenerateStaleID(g) ==
  /\ execs[g].pc = "returned"
  /\ execs[g].err = NilErr
  /\ \E t \in Times :
       /\ execs' = [execs EXCEPT ![g].pc = "generated",
                                 ![g].artifacts = Generate(execs[g].result, 1, t).artifacts]
       /\ uuids' = uuids + 1
       /\ now' = t
  /\ UNCHANGED callCount

\* goroutine g calls gen.Generate(result) after a successful Execute
\* (part_000 216-221, 276-280; generator.go 29-63)
GoGenerate(g) ==
  /\ execs[g].pc = "returned"
  /\ execs[g].err = NilErr
  /\ \E t \in Times :
       /\ execs' = [execs EXCEPT ![g].pc = "generated",
                                 ![g].artifacts = Generate(execs[g].result, uuids + 1, t).artifacts]
       /\ uuids' = uuids + 1
       /\ now' = t
  /\ UNCHANGED callCount

\* a step of the concurrency tests
GoStep ==
  \/ \E in \in TestInputs : Go(in)
  \/ \E g \in DOMAIN execs : GoExecute(g)
  \/ \E g \in DOMAIN execs : GoVerdict(g)
  \/ \E g \in DOMAIN execs : GoExecution(g)
  \/ \E g \in DOMAIN execs : GoGenerate(g)

NextConcurrent ==
  /\ GoStep
  /\ UNCHANGED <<impl, clarificationAgent, pc, reqCtx, timeoutCtx, ctxAtCall, fired>>
  /\ UNCHANGED <<getResponse, completion, extracted>>
  /\ UNCHANGED <<enriched, rl, clock, allows, mu, history, updaters, search>>
  /\ UNCHANGED repoVars
  /\ UNCHANGED callVars
  /\ UNCHANGED handlerVars

\* every started goroutine is scheduled again and again, and the test starts
\* all its goroutines
SpecConcurrent ==
  /\ InitExecute
  /\ [][NextConcurrent]_vars
  /\ WF_vars(NextConcurrent)

\* -------------------------------------------------------------- extractJSON
\* A completion text is a sequence of tokens: "fence" (three backquotes), the words
\* "json" and "js", a newline "nl", a space "sp", the JSON tokens "{", "}",
\* "[", "]", "1" (a number) and "k:" (a key and its colon), and "x", a word
\* that is no JSON.  The texts are up to MaxSegments pieces, each a bare
\* content or a fenced block tagged json, js or not at all, joined by
\* newlines.
Completions ==
  LET Contents == {<<"{", "}">>, <<"[", "1", "]">>, <<"{", "k:", "1", "}">>,
                   <<"{", "x", "}">>, <<"x">>, << >>}
      Tags == {<<"json">>, <<"js">>, << >>}
      Segments == (Contents \ {<< >>})
                    \cup {<<"fence">> \o tag \o <<"nl">> \o c \o <<"nl", "fence">> :
                            tag \in Tags, c \in Contents}
      Pieces == UNION {[1..k -> Segments] : k \in 1..MaxSegments}
      Join(ps) == IF Len(ps) = 1 THEN ps[1]
                  ELSE IF Len(ps) = 2 THEN ps[1] \o <<"nl">> \o ps[2]
                  ELSE ps[1] \o <<"nl">> \o ps[2] \o <<"sp">> \o ps[3]
  IN {<< >>} \cup {Join(ps) : ps \in Pieces}

\* strings.TrimSpace on tokens
TrimTokens(ts) ==
  LET idx == {i \in 1..Len(ts) : ts[i] \notin {"nl", "sp"}}
  IN IF idx = {} THEN << >>
     ELSE SubSeq(ts, CHOOSE i \in idx : \A j \in idx : i <= j,
                     CHOOSE i \in idx : \A j \in idx : i >= j)

\* json.Valid on tokens: whitespace apart, a number, an object that is empty
\* or has one member, or an array that is empty or has one element
RECURSIVE Valid(_)
Valid(ts) ==
  LET v == SelectSeq(ts, LAMBDA x : x \notin {"nl", "sp"})
      n == Len(v)
  IN \/ v = <<"1">>
     \/ /\ n >= 2
        /\ v[1] = "{"
        /\ v[n] = "}"
        /\ \/ n = 2
           \/ n >= 4 /\ v[2] = "k:" /\ Valid(SubSeq(v, 3, n - 1))
     \/ /\ n >= 2
        /\ v[1] = "["
        /\ v[n] = "]"
        /\ \/ n = 2
           \/ Valid(SubSeq(v, 2, n - 1))

\* the first group, trimmed, of the leftmost match in t of the pattern:
\* fence, tag, whitespace, newline, a shortest text, newline, fence
\* (FindStringSubmatch, verdict.go 539-540 and 552-553); Nil when nothing
\* matches.  The match starts at the leftmost fence p that admits one; a is
\* the newline the pattern's first newline matches (the last possible one,
\* the whitespace before it being greedy), q the newline before the closing
\* fence (the first possible one, the group being lazy)
FindFence(t, tag) ==
  LET n == Len(t)
      k == Len(tag)
      Starts(p) == {a \in (p + k + 1)..n :
                      /\ t[a] = "nl"
                      /\ \A i \in (p + k + 1)..(a - 1) : t[i] \in {"nl", "sp"}}
      Ends(a) == {q \in (a + 1)..(n - 1) : t[q] = "nl" /\ t[q + 1] = "fence"}
      As(p) == {a \in Starts(p) : Ends(a) # {}}
      Ps == {p \in 1..n : /\ p + k <= n
                          /\ t[p] = "fence"
                          /\ SubSeq(t, p + 1, p + k) = tag
                          /\ As(p) # {}}
  IN IF Ps = {} THEN Nil
     ELSE LET p == CHOOSE x \in Ps : \A y \in Ps : x <= y
              a == CHOOSE x \in As(p) : \A y \in As(p) : x >= y
              q == CHOOSE x \in Ends(a) : \A y \in Ends(a) : x <= y
          IN Ref(TrimTokens(SubSeq(t, a + 1, q - 1)))

\* the leftmost match in t of the pattern open, any text, close, the text
\* being greedy (FindString, verdict.go 563-564 and 570-571): from the first
\* open that has a close after it to the last close; Nil for no match
FindSpan(t, open, close) ==
  LET Is == {i \in 1..Len(t) : t[i] = open /\ \E j \in (i + 1)..Len(t) : t[j] = close}
  IN IF Is = {} THEN Nil
     ELSE Ref(SubSeq(t, CHOOSE i \in Is : \A j \in Is : i <= j,
                        CHOOSE j \in 1..Len(t) :
                          t[j] = close /\ \A l \in (j + 1)..Len(t) : t[l] # close))

\* extractJSON trying the object substring before the fenced blocks
extractJSONObjectFirst(text) ==
  LET object == FindSpan(text, "{", "}")
      jsonBlock == FindFence(text, <<"json">>)
      codeBlock == FindFence(text, << >>)
      array == FindSpan(text, "[", "]")
  IN IF object # Nil /\ Valid(Deref(object)) THEN [out |-> Deref(object), err |-> NilErr]
     ELSE IF jsonBlock # Nil /\ Valid(Deref(jsonBlock))
       THEN [out |-> Deref(jsonBlock), err |-> NilErr]
     ELSE IF codeBlock # Nil /\ Valid(Deref(codeBlock))
       THEN [out |-> Deref(codeBlock), err |-> NilErr]
     ELSE IF array # Nil /\ Valid(Deref(array)) THEN [out |-> Deref(array), err |-> NilErr]
     ELSE [out |-> << >>, err |-> WrapW(ErrInvalidJSON)]

\* extractJSON (verdict.go 537-576)
extractJSON(text) ==
  LET jsonBlock == FindFence(text, <<"json">>)
      codeBlock == FindFence(text, << >>)
      object == FindSpan(text, "{", "}")
      array == FindSpan(text, "[", "]")
  IN IF jsonBlock # Nil /\ Valid(Deref(jsonBlock))
       THEN [out |-> Deref(jsonBlock), err |-> NilErr]
     ELSE IF codeBlock # Nil /\ Valid(Deref(codeBlock))
       THEN [out |-> Deref(codeBlock), err |-> NilErr]
     ELSE IF object # Nil /\ Valid(Deref(object)) THEN [out |-> Deref(object), err |-> NilErr]
     ELSE IF array # Nil /\ Valid(Deref(array)) THEN [out |-> Deref(array), err |-> NilErr]
     ELSE [out |-> << >>, err |-> WrapW(ErrInvalidJSON)]

\* CompleteJSON hands the completion text to extractJSON (verdict.go 333)
CallExtractJSON(text) ==
  /\ extracted = Nil
  /\ completion' = text
  /\ extracted' = Ref(extractJSON(text))
  /\ UNCHANGED <<now, uuids, impl, clarificationAgent, pc, reqCtx, timeoutCtx, ctxAtCall, fired>>
  /\ UNCHANGED <<getResponse, execs, callCount>>
  /\ UNCHANGED <<enriched, rl, clock, allows, mu, history, updaters, search>>
  /\ UNCHANGED repoVars
  /\ UNCHANGED callVars
  /\ UNCHANGED handlerVars

NextExtract == \E text \in Completions : CallExtractJSON(text)

SpecExtract == InitExecute /\ [][NextExtract]_vars

\* -------------------------------------------- buildEnrichedInput on its own
\* VerdictHandler's call of buildEnrichedInput for a trimmed input and the
\* non-empty map of answers of the request (handlers.go 196-199, 284-296).
\* answers is the map, a set of entries with distinct ids; the range over it
\* yields the entries in an order Go leaves unspecified, here any order
CallBuildEnrichedInput(in, answers) ==
  /\ Len(enriched) < MaxEnrichCalls
  /\ \E order \in {o \in [1..Cardinality(answers) -> answers] :
                     \A i, j \in DOMAIN o : o[i] = o[j] => i = j} :
       enriched' = Append(enriched, [in |-> in, answers |-> answers,
                                     text |-> buildEnrichedInput(in, order)])
  /\ UNCHANGED <<now, uuids, impl, clarificationAgent, pc, reqCtx, timeoutCtx, ctxAtCall, fired>>
  /\ UNCHANGED <<getResponse, execs, callCount, completion, extracted>>
  /\ UNCHANGED <<rl, clock, allows, mu, history, updaters, search>>
  /\ UNCHANGED repoVars
  /\ UNCHANGED callVars
  /\ UNCHANGED handlerVars

\* requests with one answer or two
NextEnrich ==
  \E in \in {Word, OtherWord} :
    \E answers \in SUBSET [id : {Word, OtherWord}, answer : {Word, OtherWord}] :
      /\ answers # {}
      /\ \A x, y \in answers : x.id = y.id => x = y
      /\ CallBuildEnrichedInput(in, answers)

SpecEnrich == InitExecute /\ [][NextEnrich]_vars

\* ------------------------------------------------------------- RateLimiter
\* NewRateLimiter(limit, window) (part_005 138-149)
NewRateLimiter(limit, window) ==
  /\ rl = Nil
  /\ rl' = Ref([requests |-> NoRows, limit |-> limit, window |-> window])
  /\ UNCHANGED <<clock, allows>>

\* rl.Allow(ip) appending the request before it tests the limit
AllowCountsDenied(ip) ==
  /\ rl # Nil
  /\ Len(allows) < MaxAllows
  /\ \E t \in clock..MaxTicks :
       LET requests == IF ip \in DOMAIN Deref(rl).requests THEN Deref(rl).requests[ip] ELSE << >>
           valid == SelectSeq(requests, LAMBDA x : x > t - Deref(rl).window)
           ok == Len(valid) < Deref(rl).limit
       IN /\ clock' = t
          /\ rl' = Ref([Deref(rl) EXCEPT !.requests = Put(@, ip, Append(valid, t))])
          /\ allows' = Append(allows, [ip |-> ip, t |-> t, ok |-> ok])

\* rl.Allow(ip), under rl.mu.Lock(); t is what time.Now() returns
\* (part_005 151-179)
Allow(ip) ==
  /\ rl # Nil
  /\ Len(allows) < MaxAllows
  /\ \E t \in clock..MaxTicks :
       LET requests == IF ip \in DOMAIN Deref(rl).requests THEN Deref(rl).requests[ip] ELSE << >>
           valid == SelectSeq(requests, LAMBDA x : x > t - Deref(rl).window)
           ok == Len(valid) < Deref(rl).limit
       IN /\ clock' = t
          /\ rl' = Ref([Deref(rl) EXCEPT !.requests =
                          Put(@, ip, IF ok THEN Append(valid, t) ELSE valid)])
          /\ allows' = Append(allows, [ip |-> ip, t |-> t, ok |-> ok])

\* one round of rl.cleanup's loop, under rl.mu.Lock() (part_005 182-206)
cleanup ==
  /\ rl # Nil
  /\ \E t \in clock..MaxTicks :
       LET valid(ip) == SelectSeq(Deref(rl).requests[ip], LAMBDA x : x > t - Deref(rl).window)
           kept == {ip \in DOMAIN Deref(rl).requests : Len(valid(ip)) # 0}
       IN /\ clock' = t
          /\ rl' = Ref([Deref(rl) EXCEPT !.requests = [ip \in kept |-> valid(ip)]])
  /\ UNCHANGED allows

NextLimiter ==
  /\ \/ \E limit \in 0..2 : \E window \in 1..2 : NewRateLimiter(limit, window)
     \/ \E ip \in {"192.168.1.1", "192.168.1.2"} : Allow(ip)
     \/ cleanup
  /\ UNCHANGED <<now, uuids, impl, clarificationAgent, pc, reqCtx, timeoutCtx, ctxAtCall, fired>>
  /\ UNCHANGED <<getResponse, execs, callCount, completion, extracted>>
  /\ UNCHANGED <<enriched, mu, history, updaters, search>>
  /\ UNCHANGED repoVars
  /\ UNCHANGED callVars
  /\ UNCHANGED handlerVars

SpecLimiter == InitExecute /\ [][NextLimiter]_vars

\* --------------------------------------- the history of the memory repository
\* GetHistoryHandler ("get") or UpdateDoneCriteriaHandler ("update", with the
\* criteria of its body) up to the return of h.repo.GetHistory, which runs
\* under r.mu.RLock() and returns the stored pointer (auth_handlers.go
\* 207-211 and 238-242, part_008 314-323)
GetHistory(kind, criteria) ==
  /\ Len(updaters) < MaxUpdaters
  /\ mu = 0
  /\ updaters' = Append(updaters, [kind |-> kind, criteria |-> criteria,
                                   pc |-> IF kind = "get" THEN "respond" ELSE "update",
                                   DoneCriteria |-> Nil, Score |-> Nil])
  /\ UNCHANGED <<mu, history>>

\* MemoryRepository.UpdateDoneCriteria called by request g, statement by
\* statement: r.mu.Lock(), h.DoneCriteria = criteria, h.Score =
\* calculateScore(criteria) and the deferred Unlock (part_008 370-384)
UpdateDoneCriteria(g) ==
  LET calculateScore(c) ==
        IF Len(c) = 0 THEN 0
        ELSE (Cardinality({i \in DOMAIN c : c[i]}) * 100) \div Len(c)
  IN \/ /\ updaters[g].pc = "update"
        /\ mu = 0
        /\ mu' = g
        /\ updaters' = [updaters EXCEPT ![g].pc = "locked"]
        /\ UNCHANGED history
     \/ /\ updaters[g].pc = "locked"
        /\ history' = [history EXCEPT !.DoneCriteria = updaters[g].criteria]
        /\ updaters' = [updaters EXCEPT ![g].pc = "wroteCriteria"]
        /\ UNCHANGED mu
     \/ /\ updaters[g].pc = "wroteCriteria"
        /\ history' = [history EXCEPT !.Score = calculateScore(updaters[g].criteria)]
        /\ mu' = 0
        /\ updaters' = [updaters EXCEPT ![g].pc = "respond"]

\* historyToResponse(h) of request g, field by field: it reads the record's
\* fields through the pointer, holding no lock (auth_handlers.go 219 and
\* 262, 266-279)
historyToResponse(g) ==
  /\ \/ /\ updaters[g].pc = "respond"
        /\ updaters' = [updaters EXCEPT ![g].pc = "readCriteria",
                                        ![g].DoneCriteria = Ref(history.DoneCriteria)]
     \/ /\ updaters[g].pc = "readCriteria"
        /\ updaters' = [updaters EXCEPT ![g].pc = "done", ![g].Score = Ref(history.Score)]
  /\ UNCHANGED <<mu, history>>

NextHistory ==
  /\ \/ GetHistory("get", << >>)
     \/ \E criteria \in {<<TRUE>>, <<FALSE>>, <<TRUE, FALSE>>} : GetHistory("update", criteria)
     \/ \E g \in DOMAIN updaters : UpdateDoneCriteria(g)
     \/ \E g \in DOMAIN updaters : historyToResponse(g)
  /\ UNCHANGED <<now, uuids, impl, clarificationAgent, pc, reqCtx, timeoutCtx, ctxAtCall, fired>>
  /\ UNCHANGED <<getResponse, execs, callCount, completion, extracted>>
  /\ UNCHANGED <<enriched, rl, clock, allows, search>>
  /\ UNCHANGED repoVars
  /\ UNCHANGED callVars
  /\ UNCHANGED handlerVars

SpecHistory == InitExecute /\ [][NextHistory]_vars

\* ------------------------------------------------- the pipeline with search
\* main hands NewPipelineWithSearch the search client, which is nil unless
\* search is enabled, a provider is named and search.NewClient succeeds
\* (main.go 72-96)
NewPipelineWithSearch(client) ==
  /\ pc = "idle"
  /\ reqs = 0
  /\ ~ search.client
  /\ search' = [search EXCEPT !.client = client]

\* the verdict prompt with the search fragment whatever the context
buildVerdictPromptAlwaysContext(in, searchContext) ==
  [results |-> Ref(searchContext), input |-> in]

\* buildVerdictPromptWithContext: the rules, the search results when
\* searchContext is not empty, and the input (verdict.go 104-183)
buildVerdictPromptWithContext(in, searchContext) ==
  [results |-> IF searchContext # EmptyString THEN Ref(searchContext) ELSE Nil, input |-> in]

\* the orchestrator's search step, between the validation of the input and
\* the verdict stage: the gateway is queried with the input; its results,
\* formatted by FormatForPrompt (search.go 341-360: no text for no result),
\* are the search context of ProcessWithContext (verdict.go 36-43), and an
\* error of the gateway leaves the context empty; call is the number of the
\* Execute call the search belongs to
Search(outcome) ==
  /\ pc = "execute"
  /\ search.client
  /\ search.call # reqs
  /\ validateInput(input) = NilErr
  /\ LET searchContext == IF outcome = "results" THEN Word ELSE EmptyString
     IN search' = [search EXCEPT !.call = reqs,
                                 !.outcome = outcome,
                                 !.context = Ref(searchContext),
                                 !.prompt = Ref(buildVerdictPromptWithContext(input, searchContext))]

NextSearch ==
  \/ /\ \/ \E enabled, created \in BOOLEAN : NewPipelineWithSearch(enabled /\ created)
        \/ \E outcome \in {"err", "empty", "results"} : Search(outcome)
     /\ UNCHANGED <<now, uuids, impl, clarificationAgent, pc, reqCtx, timeoutCtx, ctxAtCall, fired>>
     /\ UNCHANGED <<getResponse, execs, callCount, completion, extracted>>
     /\ UNCHANGED <<enriched, rl, clock, allows, mu, history, updaters>>
     /\ UNCHANGED repoVars
     /\ UNCHANGED callVars
     /\ UNCHANGED handlerVars
  \/ /\ pc \in {"idle", "returned"}
     /\ reqs < MaxRequests
     /\ \E in \in {EmptyString, Blank, Word} :
          \E e \in {NilErr, Canceled, DeadlineExceeded} : CallExecute(in, e)
  \/ /\ (search.client /\ validateInput(input) = NilErr) => search.call = reqs
     /\ Execute
  \/ SendRequest
  \/ \E r \in Responses(stage) : ReceiveResponse(r.o, r.out)
  \/ Backoff
  \/ Deadline
  \/ \E e \in {Canceled, DeadlineExceeded} : RequestDone(e)

SpecSearch == InitExecute /\ [][NextSearch]_vars

\* ================================================================== claims
\* C1: Pipeline.Execute returns a result only if the verdict LLM call returned
\* without error, the verdict passed validation, the execution LLM call
\* returned without error and the execution output passed validation; in
\* every other case it returns an error and no result.
C1_ResultOnlyAfterBothStages ==
  pc = "returned" =>
    /\ (result = Nil) = (err # NilErr)
    /\ result # Nil =>
         /\ completed = {"verdict", "execution"}
         /\ validated = {"verdict", "execution"}
         /\ Deref(result).Verdict # Nil
         /\ TrimSpace(Deref(Deref(result).Verdict).Ruling) # EmptyString
         /\ TrimSpace(Deref(Deref(result).Verdict).Rationale) # EmptyString
         /\ Deref(result).Execution # Nil
         /\ \E i \in 1..Len(Deref(Deref(result).Execution).Phases) :
              Len(Deref(Deref(result).Execution).Phases[i].Tasks) > 0

\* Execute returned a result after both stages
C1_Witness ==
  /\ pc = "returned"
  /\ result # Nil
  /\ llmCalls = [verdict |-> 1, execution |-> 1]

\* C2: a POST /verdict that ends in an error response other than the one for
\* a failed save has not called SaveArtifacts; after any error response the
\* repository holds what it held when the request arrived; SaveArtifacts is
\* called once at most, after Execute returned a result without error and
\* Generate returned the artifacts.
C2_NoPersistenceOnError ==
  /\ saveCalls > 0 =>
       /\ saveCalls = 1
       /\ pc \in {"saving", "done"}
       /\ err = NilErr
       /\ result # Nil
       /\ artifacts # Nil
  /\ (response # Nil /\ Deref(response).status # 200) =>
       /\ <<decisions, todos>> = repoAtStart
       /\ ~ (Deref(response).status = 500 /\ Deref(response).code = "INTERNAL_ERROR")
            => saveCalls = 0

\* a request answered 504 after its verdict stage had succeeded
C2_Witness ==
  /\ pc = "done"
  /\ response # Nil
  /\ Deref(response).status = 504
  /\ "verdict" \in validated
  /\ saveCalls = 0

\* C3 (as amended): a SaveArtifacts call that returns success has both rows
\* stored when it returns; one that returns an error has stored nothing: no
\* stored row is of that call, and for its decision id neither GetDecision nor
\* GetTodoByDecisionID returns a row unless another call stored that id.
C3_SaveArtifactsAtomic ==
  [][\A c \in Callers :
       (tx'[c] # tx[c] /\ tx'[c].pc = "returned") =>
         IF tx'[c].err = NilErr
         THEN /\ Deref(tx'[c].d).ID \in DOMAIN decisions'
              /\ \E k \in DOMAIN todos' : todos'[k].DecisionID = Deref(tx'[c].d).ID
         ELSE /\ \A k \in DOMAIN decisions' : decisions'[k].call # tx'[c].call
              /\ \A k \in DOMAIN todos' : todos'[k].call # tx'[c].call
              /\ tx'[c].d # Nil =>
                   \/ /\ Deref(tx'[c].d).ID \in DOMAIN decisions'
                      /\ decisions'[Deref(tx'[c].d).ID].call # tx'[c].call
                   \/ /\ Deref(tx'[c].d).ID \notin DOMAIN decisions'
                      /\ \A k \in DOMAIN todos' : todos'[k].DecisionID # Deref(tx'[c].d).ID
    ]_vars

\* a call given both arguments has returned an error while the repository
\* holds rows of other calls
C3_Witness ==
  \E c \in Callers :
    /\ tx[c].pc = "returned"
    /\ tx[c].err # NilErr
    /\ tx[c].d # Nil
    /\ tx[c].t # Nil
    /\ decisions # NoRows

\* C3 as stated: after a SaveArtifacts call that returns an error neither
\* GetDecision(id) nor GetTodoByDecisionID(id) returns a row for its decision id.
C3_AsStated ==
  [][\A c \in Callers :
       (tx'[c] # tx[c] /\ tx'[c].pc = "returned" /\ tx'[c].err # NilErr /\ tx'[c].d # Nil) =>
         /\ Deref(tx'[c].d).ID \notin DOMAIN decisions'
         /\ \A k \in DOMAIN todos' : todos'[k].DecisionID # Deref(tx'[c].d).ID
    ]_vars

\* C4: after a successful POST /verdict the id of the decision document, the
\* Decision ID of the plan document, the stored decision's id and the stored
\* plan's decision_id are equal, the two documents carry one timestamp, and
\* the stored decision and the stored plan have equal created_at.
C4_SharedIdAndTime ==
  (response # Nil /\ Deref(response).code = "verdict") =>
    \E id \in 1..uuids :
      /\ Deref(response).decision_id = String(id)
      /\ Deref(response).decision.id = String(id)
      /\ Deref(response).todo.ID = String(id)
      /\ Deref(response).decision.created_at = Deref(response).todo.Timestamp
      /\ GetDecision(id) # Nil
      /\ Deref(GetDecision(id)).ID = id
      /\ GetTodoByDecisionID(id) # {}
      /\ \A t \in GetTodoByDecisionID(id) : t.CreatedAt = Deref(GetDecision(id)).CreatedAt

\* a request answered 200 whose save ran at a later time than its Generate
C4_Witness ==
  /\ response # Nil
  /\ Deref(response).code = "verdict"
  /\ Deref(artifacts).CreatedAt < now

\* C5: the execution agent's LLM call is made only after the verdict agent's
\* call returned and its output was validated; each agent is called once at
\* most, and a call of Execute that returns a result made exactly one call of
\* each (a call being one CompleteJSON, whatever its retries).
C5_StagesInOrder ==
  /\ llmCalls.verdict <= 1
  /\ llmCalls.execution <= 1
  /\ stage = "verdict" => llmCalls.execution = 0
  /\ llmCalls.execution = 1 =>
       /\ llmCalls.verdict = 1
       /\ "verdict" \in completed
       /\ "verdict" \in validated
  /\ (pc = "returned" /\ result # Nil) => llmCalls = [verdict |-> 1, execution |-> 1]

\* the execution agent's call is retrying a request
C5_Witness ==
  /\ pc = "inflight"
  /\ stage = "execution"
  /\ attempt > 0

\* C6 as stated, for the stage error the deadline itself causes: if p.timeout
\* runs out while Execute is running a stage and the stage's provider request
\* fails for it (makeRequest returns agent.ErrTimeout), Execute returns
\* ErrTimeout and no result.
C6_DeadlineGivesTimeout ==
  (pc = "returned" /\ fired # {} /\ lastErr = AgentErrTimeout) =>
    (err = ErrTimeout /\ result = Nil)

\* C7 as stated: called with a context that is already cancelled (and an
\* input that passes validation), Execute makes no LLM call and returns an
\* error that is neither ErrVerdictFailed nor ErrTimeout.
C7_CancelledBeforeCall ==
  (pc = "returned" /\ ctxAtCall = Canceled /\ validateInput(input) = NilErr) =>
    /\ llmCalls = [verdict |-> 0, execution |-> 0]
    /\ result = Nil
    /\ err # NilErr
    /\ ~ ErrorsIs(err, ErrVerdictFailed)
    /\ ~ ErrorsIs(err, ErrTimeout)

\* C8 as stated: while timeoutCtx is not done, a failure of the verdict stage
\* is returned as ErrVerdictFailed and one of the execution stage as
\* ErrExecutionFailed; no error matches both.
C8_StageFailureKinds ==
  (pc = "returned" /\ err # NilErr) =>
    /\ ~ (ErrorsIs(err, ErrVerdictFailed) /\ ErrorsIs(err, ErrExecutionFailed))
    /\ (timeoutCtx = NilErr /\ stage = "verdict") => err = ErrVerdictFailed
    /\ (timeoutCtx = NilErr /\ stage = "execution") => err = ErrExecutionFailed

\* C9: for an input that is empty or holds only whitespace Execute returns
\* ErrInputEmpty and no result, and makes no LLM call.
C9_EmptyInputRejected ==
  (pc = "returned" /\ \A i \in 1..Len(input) : input[i].c = "sp") =>
    /\ err = ErrInputEmpty
    /\ result = Nil
    /\ llmCalls = [verdict |-> 0, execution |-> 0]
    /\ sent = 0

\* Execute returned for an input of two runs of whitespace
C9_Witness ==
  /\ pc = "returned"
  /\ Len(input) = 2
  /\ \A i \in 1..Len(input) : input[i].c = "sp"
  /\ err = ErrInputEmpty

\* C10: for an input of more than 10000 codepoints after trimming Execute
\* returns ErrInputTooLong without an LLM call; one of exactly 10000 is not
\* rejected for its length: the verdict agent is called, an error can only be
\* a stage's or the timeout, and valid outputs of both calls give a result.
C10_InputLengthLimit ==
  pc = "returned" =>
    /\ RuneCountInString(TrimSpace(input)) > MaxInputLen =>
         /\ err = ErrInputTooLong
         /\ result = Nil
         /\ llmCalls = [verdict |-> 0, execution |-> 0]
         /\ sent = 0
    /\ RuneCountInString(TrimSpace(input)) = MaxInputLen =>
         /\ ~ ErrorsIs(err, ErrInputTooLong)
         /\ llmCalls.verdict = 1
         /\ err \in {NilErr, ErrVerdictFailed, ErrExecutionFailed, ErrTimeout}
         /\ (completed = {"verdict", "execution"} /\ validated = {"verdict", "execution"})
              => (result # Nil /\ err = NilErr)

\* Execute returned a result for an input of exactly 10000 codepoints between
\* whitespace
C10_Witness ==
  /\ pc = "returned"
  /\ Len(input) = 2
  /\ RuneCountInString(TrimSpace(input)) = MaxInputLen
  /\ result # Nil

\* C11 as stated: POST /verdict answers 400 INPUT_TOO_LONG to an input only
\* when the trimmed input is longer than 10000 codepoints (here for the
\* answer VerdictHandler gives before it calls Execute).
C11_HandlerLengthRule ==
  (pc = "done" /\ req # Nil /\ response # Nil /\ Deref(response).code = "INPUT_TOO_LONG") =>
    RuneCountInString(TrimSpace(Deref(req).Input)) > MaxInputLen

\* C12: the verdict of every result Execute returns, and the verdict the
\* execution stage is run with, has a ruling and a rationale that are not
\* empty after trimming; when the verdict the provider returned has a ruling
\* or a rationale that is empty or whitespace only, Execute returns
\* ErrVerdictFailed and no result, without calling the execution agent.
C12_VerdictNonEmpty ==
  /\ (stage = "execution" \/ result # Nil) =>
       /\ verdict # Nil
       /\ TrimSpace(Deref(verdict).Ruling) # EmptyString
       /\ TrimSpace(Deref(verdict).Rationale) # EmptyString
  /\ result # Nil => Deref(result).Verdict = verdict
  /\ (/\ pc = "returned"
      /\ stage = "verdict"
      /\ lastResp.o = "ok"
      /\ \/ TrimSpace(lastResp.out.Ruling) = EmptyString
         \/ TrimSpace(lastResp.out.Rationale) = EmptyString) =>
       /\ err = ErrVerdictFailed
       /\ result = Nil
       /\ llmCalls.execution = 0

\* Execute returned after a verdict with a ruling and a whitespace-only
\* rationale
C12_Witness ==
  /\ pc = "returned"
  /\ stage = "verdict"
  /\ lastResp.o = "ok"
  /\ lastResp.out.Ruling = Word
  /\ lastResp.out.Rationale = Blank
  /\ err = ErrVerdictFailed

\* C13: the plan of every result Execute returns has 1 to 3 phases, 1 to 5
\* tasks in every phase, and a scope list and a criteria list that are not
\* empty; when the plan the provider returned has more than 3 phases, a phase
\* of more than 5 tasks or a phase with an empty name, Execute returns
\* ErrExecutionFailed and no result.
C13_PlanBounds ==
  pc = "returned" =>
    /\ result # Nil =>
         /\ Deref(result).Execution # Nil
         /\ Len(Deref(Deref(result).Execution).Phases) \in 1..3
         /\ \A i \in 1..Len(Deref(Deref(result).Execution).Phases) :
              Len(Deref(Deref(result).Execution).Phases[i].Tasks) \in 1..5
         /\ Len(Deref(Deref(result).Execution).MVPScope) > 0
         /\ Len(Deref(Deref(result).Execution).DoneCriteria) > 0
    /\ (/\ stage = "execution"
        /\ lastResp.o = "ok"
        /\ \/ Len(lastResp.out.Phases) > 3
           \/ \E i \in 1..Len(lastResp.out.Phases) :
                \/ Len(lastResp.out.Phases[i].Tasks) > 5
                \/ lastResp.out.Phases[i].Name = EmptyString) =>
         /\ err = ErrExecutionFailed
         /\ result = Nil

\* Execute returned after a plan of 4 phases
C13_Witness ==
  /\ pc = "returned"
  /\ stage = "execution"
  /\ lastResp.o = "ok"
  /\ Len(lastResp.out.Phases) = 4
  /\ err = ErrExecutionFailed

\* C14 as stated: in the plan of every result Execute returns (a plan that
\* passed the execution agent's and the pipeline's validation) every task,
\* every scope item and every criterion is not empty after trimming.
C14_PlanStringsNonEmpty ==
  (pc = "returned" /\ result # Nil) =>
    /\ \A i \in 1..Len(Deref(Deref(result).Execution).Phases) :
         \A j \in 1..Len(Deref(Deref(result).Execution).Phases[i].Tasks) :
           TrimSpace(Deref(Deref(result).Execution).Phases[i].Tasks[j]) # EmptyString
    /\ \A i \in 1..Len(Deref(Deref(result).Execution).MVPScope) :
         TrimSpace(Deref(Deref(result).Execution).MVPScope[i]) # EmptyString
    /\ \A i \in 1..Len(Deref(Deref(result).Execution).DoneCriteria) :
         TrimSpace(Deref(Deref(result).Execution).DoneCriteria[i]) # EmptyString

\* C15 as stated: a Complete call sends at most MaxRetries + 1 requests; when
\* a request ends in a 429, in a connection error or in a deadline exceeded
\* while waiting for the provider, and attempts are left, Complete goes on to
\* another attempt; when it ends in an error status other than 429, a
\* provider-reported error or no choice, Complete returns without a backoff.
C15_RetryPolicy ==
  [][(pc = "inflight" /\ pc' # "inflight") =>
       /\ sent' <= MaxRetries + 1
       /\ (/\ attempt < MaxRetries
           /\ \/ lastResp'.o = "429"
              \/ lastResp'.o = "do_error" /\ timeoutCtx \in {NilErr, DeadlineExceeded}
              \/ lastResp'.o = "do_timeout") =>
            (pc' = "backoff" /\ attempt' = attempt + 1)
       /\ lastResp'.o \in {"api_error", "no_choices"} =>
            (pc' = "returned" /\ attempt' = attempt /\ sleeps' = sleeps)
    ]_vars

\* C16: when the request of attempt k (0 <= k <= MaxRetries) is answered with
\* a completion, the k requests before it having been answered 429, Complete
\* has slept exactly k backoffs, the i-th of 2^i seconds, has sent k + 1
\* requests, and returns the completion: CompleteJSON returns nil, and with
\* outputs that pass validation the verdict stage is followed by the execution
\* stage and the execution stage by the result.
C16_BackoffThenSuccess ==
  [][(pc = "inflight" /\ pc' # "inflight" /\ lastResp'.o = "ok") =>
       /\ attempt \in 0..MaxRetries
       /\ attempt > 0 => lastErr = ErrRateLimited
       /\ sent = attempt + 1
       /\ sleeps = [i \in 1..attempt |-> 2 ^ i]
       /\ completed' = completed \cup {stage}
       /\ (stage = "verdict" /\ validateVerdictOutput(Ref(lastResp'.out)) = NilErr) =>
            (pc' = "send" /\ stage' = "execution" /\ verdict' = Ref(lastResp'.out))
       /\ (/\ stage = "execution"
           /\ ExecutionValidateOutput(lastResp'.out) = NilErr
           /\ validateExecutionOutput(Ref(lastResp'.out)) = NilErr) =>
            (pc' = "returned" /\ err' = NilErr /\ result' # Nil)
    ]_vars

\* Execute returned a result whose execution stage was answered 429 on every
\* attempt but the last permitted one
C16_Witness ==
  /\ pc = "returned"
  /\ result # Nil
  /\ attempt = MaxRetries
  /\ sent = MaxRetries + 1
  /\ sleeps = <<2, 4, 8>>

\* C17 as stated: when the context's deadline has fired and the request in
\* flight fails for it, or the backoff sleep is cut short by it, on any
\* attempt, Complete either goes on to the backoff whose select returns the
\* deadline error, or returns, and Execute then returns ErrTimeout.
C17_DeadlineDominates ==
  [][(/\ timeoutCtx = DeadlineExceeded
      /\ \/ pc = "backoff" /\ pc' # "backoff"
         \/ pc = "inflight" /\ pc' # "inflight" /\ lastResp'.o = "do_error") =>
       /\ pc' \in {"backoff", "returned"}
       /\ pc' = "returned" => (err' = ErrTimeout /\ result' = Nil)
    ]_vars

\* C18: every POST /verdict that fails is answered by its failure kind: an
\* input empty after trimming 400 INPUT_EMPTY; an input Execute or the handler
\* finds too long 400 INPUT_TOO_LONG; ErrTimeout 504 VERDICT_FAILED;
\* ErrVerdictFailed or ErrExecutionFailed 500 VERDICT_FAILED; a failed
\* SaveArtifacts 500 INTERNAL_ERROR; and 504 and 500 are answered to these
\* kinds only.
C18_FailureResponses ==
  (pc = "done" /\ response # Nil) =>
    /\ (req # Nil /\ TrimSpace(Deref(req).Input) = EmptyString) =>
         response = Respond(400, "INPUT_EMPTY")
    /\ (req # Nil /\ RuneCountInString(TrimSpace(Deref(req).Input)) > MaxInputLen) =>
         response = Respond(400, "INPUT_TOO_LONG")
    /\ ErrorsIs(err, ErrInputEmpty) => response = Respond(400, "INPUT_EMPTY")
    /\ ErrorsIs(err, ErrInputTooLong) => response = Respond(400, "INPUT_TOO_LONG")
    /\ ErrorsIs(err, ErrTimeout) = (response = Respond(504, "VERDICT_FAILED"))
    /\ (ErrorsIs(err, ErrVerdictFailed) \/ ErrorsIs(err, ErrExecutionFailed))
         = (response = Respond(500, "VERDICT_FAILED"))
    /\ (saveCalls = 1 /\ <<decisions, todos>> = repoAtStart)
         = (response = Respond(500, "INTERNAL_ERROR"))
    /\ Deref(response).status \in {200, 400, 500, 504}

\* a request answered 500 INTERNAL_ERROR after its save failed
C18_Witness ==
  /\ pc = "done"
  /\ response = Respond(500, "INTERNAL_ERROR")
  /\ saveCalls = 1
  /\ err = NilErr

\* C19 (as amended): for a POST /verdict whose input passed the handler's
\* checks, Analyze is called, once, if and only if a clarification agent is
\* configured, the request has no clarification object and skip_clarify is
\* false; a request with a clarification object, with answers or without, or
\* with skip_clarify true, makes no clarification call and goes on to Execute.
C19_ClarificationInvoked ==
  /\ clarifyCalls \in {0, 1}
  /\ req # Nil =>
       IF /\ TrimSpace(Deref(req).Input) # EmptyString
          /\ len(TrimSpace(Deref(req).Input)) <= MaxInputLen
       THEN /\ (clarifyCalls = 1) = (/\ clarificationAgent
                                     /\ Deref(req).Clarification = Nil
                                     /\ ~ Deref(req).SkipClarify)
            /\ clarifyCalls = 0 =>
                 /\ pc = "execute"
                 /\ response = Nil
                 /\ clarification = NoAnalysis
                 /\ llmCalls = [verdict |-> 0, execution |-> 0]
       ELSE clarifyCalls = 0 /\ pc = "done"

\* a request with a clarification object that holds no answer, skip_clarify
\* false and an agent configured has gone on to Execute without a call
C19_Witness ==
  /\ req # Nil
  /\ clarificationAgent
  /\ Deref(req).Clarification = Ref(<< >>)
  /\ ~ Deref(req).SkipClarify
  /\ clarifyCalls = 0
  /\ pc = "execute"

\* C19 as stated: for a POST /verdict whose input passed the handler's checks,
\* Analyze is called if and only if an agent is configured, the request
\* carries no clarification answers and skip_clarify is false.
C19_AsStated ==
  (/\ req # Nil
   /\ TrimSpace(Deref(req).Input) # EmptyString
   /\ len(TrimSpace(Deref(req).Input)) <= MaxInputLen) =>
    (clarifyCalls = 1) = (/\ clarificationAgent
                          /\ \/ Deref(req).Clarification = Nil
                             \/ Len(Deref(Deref(req).Clarification)) = 0
                          /\ ~ Deref(req).SkipClarify)

\* C20 (as amended): when Analyze returns, without error, an output with
\* NeedsClarification and at least one question, POST /verdict answers 200
\* clarification_needed with those questions (their ids and types as Analyze
\* completed them) and ends: no verdict or execution LLM call, no request to
\* the provider for them, no Generate, no SaveArtifacts, the repository as it
\* was; and clarification_needed is answered in this case only.
C20_ClarificationEndsRequest ==
  /\ (/\ clarification.err = NilErr
      /\ clarification.out # Nil
      /\ Deref(clarification.out).NeedsClarification
      /\ Len(Deref(clarification.out).Questions) > 0) =>
       /\ pc = "done"
       /\ clarifyCalls = 1
       /\ response # Nil
       /\ Deref(response).status = 200
       /\ Deref(response).code = "clarification_needed"
       /\ Len(Deref(response).questions) = Len(Deref(clarification.out).Questions)
       /\ \A i \in 1..Len(Deref(response).questions) :
            /\ Deref(response).questions[i].ID = Deref(clarification.out).Questions[i].ID
            /\ Deref(response).questions[i].ID # EmptyString
            /\ Deref(response).questions[i].Question = Deref(clarification.out).Questions[i].Question
            /\ Deref(response).questions[i].Type = Deref(clarification.out).Questions[i].Type
       /\ llmCalls = [verdict |-> 0, execution |-> 0]
       /\ sent = 0
       /\ result = Nil
       /\ artifacts = Nil
       /\ saveCalls = 0
       /\ <<decisions, todos>> = repoAtStart
  /\ (response # Nil /\ Deref(response).code = "clarification_needed") =>
       /\ clarification.out # Nil
       /\ Deref(clarification.out).NeedsClarification
       /\ Len(Deref(clarification.out).Questions) > 0

\* a request answered clarification_needed with a question whose id Analyze
\* assigned
C20_Witness ==
  /\ pc = "done"
  /\ response # Nil
  /\ Deref(response).code = "clarification_needed"
  /\ Len(Deref(response).questions) = 1
  /\ Deref(response).questions[1].ID = QuestionID(1)

\* C20 as stated: when Analyze returns an output with NeedsClarification, POST
\* /verdict answers clarification_needed and ends there, without a verdict or
\* execution LLM call.
C20_AsStated ==
  (clarification.out # Nil /\ Deref(clarification.out).NeedsClarification) =>
    /\ pc = "done"
    /\ response # Nil
    /\ Deref(response).code = "clarification_needed"
    /\ llmCalls = [verdict |-> 0, execution |-> 0]

\* C21: when clarificationAgent.Analyze fails (the provider call fails or its
\* output does not parse), POST /verdict writes no response and goes on to
\* Execute with the input it would have used had no clarification been needed.
C21_ClarificationFailureContinues ==
  (req # Nil /\ clarifyCalls = 1 /\ clarification.err # NilErr) =>
    /\ pc = "execute"
    /\ response = Nil
    /\ clarification.out = Nil
    /\ input = TrimSpace(Deref(req).Input)
    /\ llmCalls = [verdict |-> 0, execution |-> 0]
    /\ saveCalls = 0

\* a request whose clarification analysis failed, about to call Execute
C21_Witness ==
  /\ req # Nil
  /\ clarifyCalls = 1
  /\ clarification.err # NilErr
  /\ pc = "execute"
  /\ response = Nil

\* C22: a stored decision is never changed or replaced: every decision
\* GetDecision returns keeps its input, verdict, creation time and finality
\* flag over every later repository operation.
C22_DecisionNeverMutated ==
  [][\A id \in DOMAIN decisions :
       /\ id \in DOMAIN decisions'
       /\ decisions'[id].Input = decisions[id].Input
       /\ decisions'[id].Verdict = decisions[id].Verdict
       /\ decisions'[id].CreatedAt = decisions[id].CreatedAt
       /\ decisions'[id].IsFinal = decisions[id].IsFinal
    ]_vars

\* C23: in the in-memory repository a decision written by SaveArtifacts is
\* never visible without a todo for its id, and a todo written by
\* SaveArtifacts never without its decision.
C23_NoHalfDoneSave ==
  impl = "memory" =>
    /\ \A id \in DOMAIN decisions :
         decisions[id].call # 0 => GetTodoByDecisionID(id) # {}
    /\ \A k \in DOMAIN todos :
         todos[k].call # 0 => GetDecision(todos[k].DecisionID) # Nil

\* C24: concurrent Execute calls on one shared Pipeline against the mock LLM
\* all return, and each call's outcome follows from its own input: a call
\* with a valid input returns a result holding its input and both outputs, a
\* call with an empty input returns ErrInputEmpty and no result.
C24_ConcurrentExecuteIsolated ==
  /\ [](\A g \in DOMAIN execs :
          execs[g].pc \in {"returned", "generated"} =>
            /\ (/\ TrimSpace(execs[g].input) # EmptyString
                /\ RuneCountInString(TrimSpace(execs[g].input)) <= MaxInputLen) =>
                 /\ execs[g].err = NilErr
                 /\ execs[g].result # Nil
                 /\ Deref(execs[g].result).Input = execs[g].input
                 /\ Deref(execs[g].result).Verdict # Nil
                 /\ Deref(execs[g].result).Execution # Nil
            /\ TrimSpace(execs[g].input) = EmptyString =>
                 /\ execs[g].err = ErrInputEmpty
                 /\ execs[g].result = Nil)
  /\ <>(/\ Len(execs) = MaxGoroutines
        /\ \A g \in DOMAIN execs : execs[g].pc \in {"returned", "generated"})

\* all the goroutines have returned, one with an error for its empty input
\* and two with results for their different valid inputs
C24_Witness ==
  /\ Len(execs) = MaxGoroutines
  /\ \A g \in DOMAIN execs : execs[g].pc \in {"returned", "generated"}
  /\ \E g \in DOMAIN execs : execs[g].input = EmptyString /\ execs[g].err = ErrInputEmpty
  /\ \E g, h \in DOMAIN execs :
       /\ execs[g].input = Word /\ execs[g].err = NilErr
       /\ execs[h].input = OtherWord /\ execs[h].err = NilErr

\* C25: any two successful artifact generations, one after the other or
\* interleaved, have different identifiers.
C25_DistinctArtifactIds ==
  \A g, h \in DOMAIN execs :
    (g # h /\ execs[g].artifacts # Nil /\ execs[h].artifacts # Nil) =>
      Deref(execs[g].artifacts).ID # Deref(execs[h].artifacts).ID

\* all the goroutines have generated artifacts
C25_Witness ==
  /\ Len(execs) = MaxGoroutines
  /\ \A g \in DOMAIN execs : execs[g].pc = "generated" /\ execs[g].artifacts # Nil

\* C26: the decision record POST /verdict persists holds the user's original
\* input, the trimmed input of the request, also when the request carried
\* clarification answers.
C26_DecisionHoldsOriginalInput ==
  \A id \in DOMAIN decisions : decisions[id].Input = original

\* C27 (as amended): GET /decisions/{id} and GET /todos/{id} answer 400
\* INVALID_ID when id is no UUID, 500 INTERNAL_ERROR when the repository's
\* query fails otherwise than with not found, 404 NOT_FOUND when the
\* repository holds no artifact with that id, and 200 with the persisted
\* artifact otherwise.
C27_GetResponses ==
  [][(getResponse' # getResponse /\ getResponse' # Nil) =>
       LET r == Deref(getResponse')
           rows == IF r.handler = "decision" THEN decisions ELSE todos
       IN IF r.id[1] # "uuid"
            THEN r.status = 400 /\ r.code = "INVALID_ID" /\ r.body = Nil
          ELSE IF r.failed
            THEN r.status = 500 /\ r.code = "INTERNAL_ERROR" /\ r.body = Nil
          ELSE IF r.id[2] \notin DOMAIN rows
            THEN r.status = 404 /\ r.code = "NOT_FOUND" /\ r.body = Nil
          ELSE /\ r.status = 200
               /\ r.body # Nil
               /\ Deref(r.body).ID = r.id
               /\ IF r.handler = "decision"
                    THEN /\ Deref(r.body).Input = rows[r.id[2]].Input
                         /\ Deref(r.body).Verdict = rows[r.id[2]].Verdict
                         /\ Deref(r.body).IsFinal = rows[r.id[2]].IsFinal
                    ELSE /\ Deref(r.body).Content = rows[r.id[2]].Content
                         /\ Deref(r.body).DecisionID = <<"uuid", rows[r.id[2]].DecisionID>>
    ]_vars

\* a GET request for a stored todo was answered 200
C27_Witness ==
  /\ getResponse # Nil
  /\ Deref(getResponse).status = 200
  /\ Deref(getResponse).handler = "todo"
  /\ Deref(getResponse).id[2] \in DOMAIN todos

\* C27 as stated: 400 for an invalid id, 404 for an id that is not stored,
\* 200 with the artifact otherwise.
C27_AsStated ==
  [][(getResponse' # getResponse /\ getResponse' # Nil) =>
       LET r == Deref(getResponse')
           rows == IF r.handler = "decision" THEN decisions ELSE todos
       IN IF r.id[1] # "uuid" THEN r.status = 400 /\ r.code = "INVALID_ID"
          ELSE IF r.id[2] \notin DOMAIN rows THEN r.status = 404 /\ r.code = "NOT_FOUND"
          ELSE r.status = 200 /\ r.body # Nil
    ]_vars

\* C28: after Analyze's post-processing every question has a non-empty id
\* and a non-empty type, in Analyze's result and in the clarification_needed
\* response: a question returned by the LLM without an id has the id q
\* followed by its 1-based position, one returned without a type has the
\* type text, and ids and types the LLM did return are kept.
C28_QuestionDefaults ==
  (clarification.out # Nil /\ unmarshalled.err = NilErr /\ unmarshalled.out # Nil) =>
    LET qs == Deref(clarification.out).Questions
        raw == unmarshalled.out.Questions
    IN /\ Len(qs) = Len(raw)
       /\ \A i \in 1..Len(qs) :
            /\ qs[i].ID # EmptyString
            /\ qs[i].Type # EmptyString
            /\ qs[i].ID = IF raw[i].ID = EmptyString THEN <<"q", i>> ELSE raw[i].ID
            /\ qs[i].Type = IF raw[i].Type = EmptyString THEN TypeText ELSE raw[i].Type
       /\ (response # Nil /\ Deref(response).code = "clarification_needed") =>
            /\ Len(Deref(response).questions) = Len(qs)
            /\ \A i \in 1..Len(qs) :
                 /\ Deref(response).questions[i].ID = qs[i].ID
                 /\ Deref(response).questions[i].Type = qs[i].Type

\* a clarification_needed response with two questions: the LLM returned the
\* first with an id and the second without id and type, and the second was
\* emitted as q2 of type text
C28_Witness ==
  /\ response # Nil
  /\ Deref(response).code = "clarification_needed"
  /\ unmarshalled.err = NilErr
  /\ Len(unmarshalled.out.Questions) = 2
  /\ unmarshalled.out.Questions[1].ID # EmptyString
  /\ unmarshalled.out.Questions[2].ID = EmptyString
  /\ unmarshalled.out.Questions[2].Type = EmptyString
  /\ Deref(response).questions[2].ID = <<"q", 2>>
  /\ Deref(response).questions[2].Type = TypeText

\* C29: every question of a clarification_needed response whose type is not
\* text has a non-empty options list (a choice question the LLM returned
\* without options is not emitted).
C29_ChoiceQuestionsHaveOptions ==
  (response # Nil /\ Deref(response).code = "clarification_needed") =>
    \A i \in 1..Len(Deref(response).questions) :
      Deref(response).questions[i].Type # TypeText =>
        Len(Deref(response).questions[i].Options) > 0

C33_FirstValidBlockThenLongestObject ==
  extracted # Nil =>
    LET t == completion
        r == Deref(extracted)
        fs == {i \in 1..Len(t) : t[i] = "fence"}
        opens == {o \in fs : /\ Cardinality({f \in fs : f <= o}) % 2 = 1
                             /\ \E f \in fs : f > o}
        close(o) == CHOOSE f \in fs : f > o /\ \A g \in fs : g > o => f <= g
        tagged(o) == t[o + 1] \in {"json", "js"}
        contents(o) == TrimTokens(SubSeq(t, IF tagged(o) THEN o + 2 ELSE o + 1, close(o) - 1))
        valid == {o \in opens : Valid(contents(o))}
        objects == {s \in (1..Len(t)) \X (1..Len(t)) :
                      /\ s[1] < s[2]
                      /\ t[s[1]] = "{"
                      /\ t[s[2]] = "}"
                      /\ Valid(SubSeq(t, s[1], s[2]))}
    IN (~ \E o \in valid : t[o + 1] = "json") =>
         IF valid # {}
           THEN /\ r.err = NilErr
                /\ r.out = contents(CHOOSE o \in valid : \A p \in valid : o <= p)
         ELSE objects # {} =>
                /\ r.err = NilErr
                /\ \E s \in objects :
                     /\ r.out = SubSeq(t, s[1], s[2])
                     /\ \A u \in objects : u[2] - u[1] <= s[2] - s[1]

\* C36: in the in-memory repository there is at most one stored todo per
\* decision id after any sequence of SaveArtifacts calls, so
\* GetTodoByDecisionID has one possible answer.
C36_OneTodoPerDecision ==
  impl = "memory" =>
    \A k1, k2 \in DOMAIN todos :
      (/\ todos[k1].call # 0
       /\ todos[k2].call # 0
       /\ todos[k1].DecisionID = todos[k2].DecisionID) => k1 = k2

\* C38: POST /verdict answers INPUT_TOO_LONG only for a user input that is
\* itself over the limit (by the handler's own check or by the pipeline's):
\* never for an input within the limit because of the clarification answers
\* the request carries.
C38_AnswersNeverMakeInputTooLong ==
  (pc = "done" /\ response # Nil /\ Deref(response).code = "INPUT_TOO_LONG") =>
    \/ len(original) > MaxInputLen
    \/ RuneCountInString(original) > MaxInputLen

\* C39: the questions of one clarification analysis, as Analyze returns them
\* and as the clarification_needed response lists them, have pairwise
\* distinct ids, also when the provider gave ids to some of them and the
\* others were numbered by position.
C39_QuestionIdsDistinct ==
  /\ clarification.out # Nil =>
       \A i, j \in 1..Len(Deref(clarification.out).Questions) :
         Deref(clarification.out).Questions[i].ID = Deref(clarification.out).Questions[j].ID
           => i = j
  /\ (response # Nil /\ Deref(response).code = "clarification_needed") =>
       \A i, j \in 1..Len(Deref(response).questions) :
         Deref(response).questions[i].ID = Deref(response).questions[j].ID => i = j

\* C35: after POST /verdict answered 200 with decision_id D, the GET handlers
\* called with D, their repository queries being carried out, answer 200:
\* GET /decisions/D with the decision and GET /todos/D with its plan.
C35_ArtifactsRetrievableByDecisionId ==
  (pc = "done" /\ response # Nil /\ Deref(response).code = "verdict") =>
    LET D == Deref(response).decision_id
        d == GetDecision(Parse(D).id)
        t == GetTodo(Parse(D).id)
    IN /\ GetResponse(D, d, FALSE, d).status = 200
       /\ Deref(d).ID = Parse(D).id
       /\ GetResponse(D, t, FALSE, t).status = 200
       /\ Deref(t).DecisionID = Parse(D).id

\* C37: buildEnrichedInput is deterministic: two calls with the same input
\* and the same answers give the same text, the answer lines being in a
\* fixed order.
C37_EnrichedInputDeterministic ==
  \A i, j \in DOMAIN enriched :
    (enriched[i].in = enriched[j].in /\ enriched[i].answers = enriched[j].answers)
      => enriched[i].text = enriched[j].text

\* C31: rl.Allow(ip) at time t answers true exactly when fewer than limit
\* earlier calls for the same ip were answered true at times later than
\* t - window: denied calls and calls for other ips do not count, and a
\* denied ip is allowed again once its allowed calls are older than the
\* window.
C31_SlidingWindowPerIP ==
  \A k \in DOMAIN allows :
    allows[k].ok <=>
      Cardinality({j \in 1..(k - 1) : /\ allows[j].ip = allows[k].ip
                                      /\ allows[j].ok
                                      /\ allows[j].t > allows[k].t - Deref(rl).window})
        < Deref(rl).limit

\* an ip is allowed, then denied while another ip is allowed, then allowed
\* again after the window
C31_Witness ==
  /\ Len(allows) = 4
  /\ allows[1].ip = allows[2].ip /\ allows[1].ok /\ ~ allows[2].ok
  /\ allows[3].ip # allows[1].ip /\ allows[3].ok /\ allows[3].t = allows[2].t
  /\ allows[4].ip = allows[1].ip /\ allows[4].ok

\* C34: the fields of a record of the in-memory repository are read and
\* written under the repository lock only: no request is reading the fields
\* of the record it got from GetHistory while another request's
\* UpdateDoneCriteria is modifying that record.
C34_RecordAccessUnderLock ==
  \A g, w \in DOMAIN updaters :
    ~ (/\ updaters[g].pc = "readCriteria"
       /\ updaters[w].pc = "wroteCriteria")

====
